---- MODULE Spec2Model ----
(*************************************************************************)
(* Model of the torchlight audio core: AudioManager (admission, stop,    *)
(* force stop, disconnect) and FFmpegAudioPlayer (the streaming          *)
(* pipeline with its asyncio tasks).  One step of the model is one       *)
(* uninterrupted run of a coroutine or handler between two suspension    *)
(* points of the event loop.                                             *)
(*************************************************************************)
EXTENDS Integers, Sequences, FiniteSets, TLC

\* ---------------------------------------------------------------- bounds
MaxPipes == 1          \* sessions created in one run of Spec
MaxClips == 2          \* sessions created in one run of SpecMgr
NumUsers == 6          \* players 1..NumUsers
MaxChunks == 3         \* PCM chunks one transcoder run can produce
PipeCap == 1           \* chunks the transcoder's stdout pipe can hold unread
MaxDt == 2             \* clock units one asyncio.sleep(0.1) can take
MaxBurst == 3          \* requests of one player in one run of SpecLedger
MaxClock == 4          \* loop time reached in SpecCool
MaxLast == 2           \* last-use time and length of the ledgers of SpecCool
MaxLate == 1           \* listeners a client adds to a pipeline in SpecApi

\* ------------------------------------------------------ program constants
SAMPLEBYTES == 2       \* FFmpegAudioPlayer.py:16
Quorum == 3            \* AudioManager.py:89
StopLevel == 3         \* AudioManager.py:63 (default of config "StopLevel")
ImmunityLevel == 2     \* AudioManager.py:153 (config "ImmunityLevel")
SampleRate == 1        \* FFmpegAudioPlayer.py:32 (samples per clock unit)

\* the level VoteDisable stores in the flag, and the share of the players
\* whose votes it needs
VoteLevel == 6
VoteShare == 5

Users == 1..NumUsers
\* player.admin.level of each player
Level(u) ==
    IF u \in {1, 4} THEN 1 ELSE IF u = 5 THEN 3 ELSE IF u = 6 THEN 4 ELSE 0
ChunkBytes == {2, 4}   \* sizes of the chunks stream.read(65536) returns

\* anti_spam.config[str(level)]: the tier policies of the configuration;
\* levels 0, 1 and 3 have one, levels 2 and 4 have none
HasTier(level) == level \in {0, 1, 3}
Tier(level) ==
    IF level = 0 THEN [Uses |-> 2, TotalTime |-> 3, DelayFactor |-> 2]
    ELSE [Uses |-> -1, TotalTime |-> 3, DelayFactor |-> 1]

\* player.name, and str.lower() on the alphabet of the names
Name(u) ==
    IF u = 1 THEN <<"A", "b">>
    ELSE IF u = 2 THEN <<"B", "a">>
    ELSE IF u = 3 THEN <<"a", "a">>
    ELSE IF u = 4 THEN <<"b", "b">>
    ELSE <<"B">>
LowerChar(c) == IF c = "A" THEN "a" ELSE IF c = "B" THEN "b" ELSE c
Lower(str) == [i \in 1..Len(str) |-> LowerChar(str[i])]
\* Python's `sub in str`
IsSubstring(sub, str) ==
    \E i \in 0..(Len(str) - Len(sub)) :
        \A j \in 1..Len(sub) : str[i + j] = sub[j]
Filters == {<<>>, <<"a", "B">>, <<"b">>}

VARIABLES
    audio_clips,   \* AudioManager.audio_clips: list of session ids
    clips,         \* the AudioClip objects created so far, by session id
    pl,            \* the FFmpegAudioPlayer object of each session
    task,          \* positions and locals of each pipeline's coroutines
    env,           \* OS resources and transcoder output of each pipeline
    ev,            \* per pipeline: how often Play / Stop were dispatched
    disabled,      \* torchlight.disabled (False is 0)
    disable_votes, \* torchlight.disable_votes: the players who voted
    storage,       \* player.storage["Audio"] of each player
    clock,         \* torchlight.loop.time()
    op,            \* the operation or coroutine step taken last
    out            \* what that step sent, logged and which listeners it ran

vars == <<audio_clips, clips, pl, task, env, ev, disabled, disable_votes,
          storage, clock, op, out>>

Sessions == 1..Len(clips)

\* one entry of the step's trace
Ent(k, a, b, c, d) == [k |-> k, a |-> a, b |-> b, c |-> c, d |-> d]
SayPrivate(W, player, msg, n) ==
    [W EXCEPT !.out = Append(@, Ent("SayPrivate", player, msg, n, 0))]
SayChat(W, msg) ==
    [W EXCEPT !.out = Append(@, Ent("SayChat", 0, msg, 0, 0))]
LogError(W, s, what) ==
    [W EXCEPT !.out = Append(@, Ent("error", s, what, 0, 0))]

\* the part of the state the synchronous code reads and writes
World == [audio_clips |-> audio_clips, clips |-> clips, pl |-> pl,
          task |-> task, env |-> env, ev |-> ev, storage |-> storage,
          out |-> <<>>]

\* list.remove(x): drops the first occurrence
RECURSIVE ListRemove(_, _)
ListRemove(list, x) ==
    IF list = <<>> THEN <<>>
    ELSE IF Head(list) = x THEN Tail(list)
    ELSE <<Head(list)>> \o ListRemove(Tail(list), x)
InList(list, x) == \E i \in 1..Len(list) : list[i] = x

\* FFmpegAudioPlayer.__init__
NewPlayer ==
    [playing |-> FALSE, writer |-> 0, ffmpeg_process |-> 0, curl_process |-> 0,
     has_callbacks |-> TRUE, callbacks |-> <<>>,
     seconds |-> 0, started_playing |-> FALSE, stopped_playing |-> FALSE]

NewTask ==
    [stream |-> "idle", read |-> "idle", write |-> "idle", wait |-> "idle",
     upd |-> "idle", started |-> FALSE, data |-> 0, elapsed |-> 0, last |-> 0,
     wait_arg |-> 0]

NewEnv ==
    [conns |-> 0, curls |-> 0, ffmpegs |-> 0, left |-> 0, buf |-> 0,
     closed |-> "none"]

NewEv == [Play |-> 0, Stop |-> 0]

\* FFmpegAudioPlayer.AddCallback on a pipeline whose list exists
AddCallback(W, s, cbtype, cbfunc) ==
    [W EXCEPT !.pl[s].callbacks = Append(@, <<cbtype, cbfunc>>)]

\* FFmpegAudioPlayer.AddCallback as a call that can fail: False for a kind
\* that is not valid, AttributeError when self.callbacks has been deleted
VALID_CALLBACKS == {"Play", "Stop", "Update"}
TryAddCallback(W, s, cbtype, cbfunc) ==
    IF cbtype \notin VALID_CALLBACKS
    THEN [w |-> W, ret |-> FALSE, exc |-> FALSE]
    ELSE IF ~W.pl[s].has_callbacks
    THEN [w |-> W, ret |-> FALSE, exc |-> TRUE]
    ELSE [w |-> AddCallback(W, s, cbtype, cbfunc), ret |-> TRUE,
          exc |-> FALSE]

\* F(v) with v evaluated once, as Python evaluates an argument or the
\* right-hand side of an assignment once
Bind(v, F(_)) == CHOOSE x \in {F(r) : r \in {v}} : TRUE

\* the usage-accounting listeners AntiSpam.OnPlay, OnUpdate(prev, curr)
\* and OnStop of the session's owner: a use is counted on Play, the time
\* used grows by the delta of each Update, the time and the length of the
\* last use are recorded on Stop
SpamListener(W, s, cbtype, a, b) ==
    LET u == W.clips[s].player
    IN  IF cbtype = "Play"
        THEN [W EXCEPT !.storage[u].Uses = @ + 1]
        ELSE IF cbtype = "Update"
        THEN [W EXCEPT !.storage[u].TimeUsed = @ + (b - a),
                       !.clips[s].position = b]
        ELSE [W EXCEPT !.storage[u].LastUse = clock,
                       !.storage[u].LastUseLength = W.clips[s].position]

RECURSIVE Stop(_, _, _)
RECURSIVE CallbackFrom(_, _, _, _, _, _, _)
RECURSIVE Invoke(_, _, _, _, _, _)

\* One listener call inside the try/except of Callback.
\*   "remove"  the registry's  lambda: self.audio_clips.remove(clip)
\*   "spam.*"  the usage-accounting listeners (AntiSpam); with xb "flood"
\*             the Update listener, which is handed audio_clips (line
\*             158), stops the clip
\*   "adv.*"   the advertiser listeners; the session's xb says what this
\*             external listener does: return, raise, or stop the clip
\*   "unlink"  the Stop listener a command adds after Play
\*   "chain"   a Stop listener of a client that stops the next session
Invoke(W, s, cbtype, func, a, b) ==
    Bind([W EXCEPT !.out = Append(@, Ent(cbtype, s, func, a, b))], LAMBDA W0 :
        IF func = "remove"
        THEN IF InList(W0.audio_clips, s)
             THEN [W0 EXCEPT !.audio_clips = ListRemove(@, s)]
             ELSE LogError(W0, s, "ValueError")
        ELSE IF func = "spam" /\ cbtype = "Update" /\ W0.clips[s].xb = "flood"
        THEN Bind(Stop(SpamListener(W0, s, cbtype, a, b), s, TRUE), LAMBDA r :
                 IF r.exc THEN LogError(r.w, s, "AttributeError") ELSE r.w)
        ELSE IF func = "spam"
        THEN SpamListener(W0, s, cbtype, a, b)
        ELSE IF func = "adv" /\ W0.clips[s].xb = "raise"
        THEN LogError(W0, s, "ListenerError")
        ELSE IF func = "adv" /\ W0.clips[s].xb = "stop"
        THEN Bind(Stop(W0, s, TRUE), LAMBDA r :
                 IF r.exc THEN LogError(r.w, s, "AttributeError") ELSE r.w)
        ELSE IF func = "chain"
        THEN Bind(Stop(W0, (s % Len(W0.clips)) + 1, TRUE), LAMBDA r :
                 IF r.exc THEN LogError(r.w, s, "AttributeError") ELSE r.w)
        ELSE W0)

\* Callback as it would be without the try/except of lines 201-205: the
\* loop ends at the first listener that raises
RECURSIVE CallbackFromNoTry(_, _, _, _, _, _, _)
CallbackFromNoTry(W, s, cbtype, a, b, list, i) ==
    IF i > Len(list) THEN W
    ELSE IF list[i][1] = cbtype
    THEN IF list[i][2] = "adv" /\ W.clips[s].xb = "raise"
         THEN Invoke(W, s, cbtype, list[i][2], a, b)
         ELSE CallbackFromNoTry(Invoke(W, s, cbtype, list[i][2], a, b),
                                s, cbtype, a, b, list, i + 1)
    ELSE CallbackFromNoTry(W, s, cbtype, a, b, list, i + 1)

\* FFmpegAudioPlayer.Callback over the list object `list`, from index i
CallbackFrom(W, s, cbtype, a, b, list, i) ==
    IF i > Len(list) THEN W
    ELSE IF list[i][1] = cbtype
    THEN CallbackFrom(Invoke(W, s, cbtype, list[i][2], a, b),
                      s, cbtype, a, b, list, i + 1)
    ELSE CallbackFrom(W, s, cbtype, a, b, list, i + 1)

\* FFmpegAudioPlayer.Callback: `for callback in self.callbacks` raises
\* AttributeError when the list has been deleted
Callback(W0, s, cbtype, a, b) ==
    Bind(W0, LAMBDA W :
        IF ~W.pl[s].has_callbacks
        THEN [w |-> W, exc |-> TRUE]
        ELSE [w |-> CallbackFrom(IF cbtype = "Update" THEN W
                                 ELSE [W EXCEPT !.ev[s][cbtype] = @ + 1],
                                 s, cbtype, a, b, W.pl[s].callbacks, 1),
              exc |-> FALSE])

\* the release as it would be with the abort of lines 151-166 outside
\* `if force`
ReleaseAbort(W0, s, force) ==
    Bind(W0, LAMBDA W :
    LET p == W.pl[s]
        e == W.env[s]
        e1 == IF p.ffmpeg_process # 0 /\ e.ffmpegs > 0
              THEN [e EXCEPT !.ffmpegs = @ - 1, !.left = 0] ELSE e
        e2 == IF p.curl_process # 0 /\ e1.curls > 0
              THEN [e1 EXCEPT !.curls = @ - 1] ELSE e1
        e3 == IF p.writer # 0
              THEN [e2 EXCEPT !.conns = IF @ > 0 THEN @ - 1 ELSE 0,
                              !.closed = "abort"]
              ELSE e2
    IN  [W EXCEPT !.env[s] = e3,
                  !.pl[s].ffmpeg_process = 0,
                  !.pl[s].curl_process = 0,
                  !.pl[s].writer = 0])

\* the resource release of FFmpegAudioPlayer.Stop (lines 134-177)
Release(W0, s, force) ==
    Bind(W0, LAMBDA W :
    LET p == W.pl[s]
        e == W.env[s]
        e1 == IF p.ffmpeg_process # 0 /\ e.ffmpegs > 0
              THEN [e EXCEPT !.ffmpegs = @ - 1, !.left = 0] ELSE e
        e2 == IF p.curl_process # 0 /\ e1.curls > 0
              THEN [e1 EXCEPT !.curls = @ - 1] ELSE e1
        e3 == IF p.writer # 0
              THEN [e2 EXCEPT !.conns = IF @ > 0 THEN @ - 1 ELSE 0,
                              !.closed = IF force THEN "abort" ELSE "orderly"]
              ELSE e2
    IN  [W EXCEPT !.env[s] = e3,
                  !.pl[s].ffmpeg_process = 0,
                  !.pl[s].curl_process = 0,
                  !.pl[s].writer = 0])

\* Stop as it would be without the dispatch of line 184
StopNoDispatch(W0, s, force) ==
    Bind(W0, LAMBDA W :
        IF ~W.pl[s].playing
        THEN [w |-> W, ret |-> FALSE, exc |-> FALSE]
        ELSE [w |-> [Release(W, s, force) EXCEPT !.pl[s].playing = FALSE,
                                                 !.pl[s].has_callbacks = FALSE,
                                                 !.pl[s].callbacks = <<>>],
              ret |-> TRUE, exc |-> FALSE])

\* Stop as it would be if line 132 returned True
StopAlwaysTrue(W0, s, force) ==
    Bind(W0, LAMBDA W :
        IF ~W.pl[s].playing
        THEN [w |-> W, ret |-> TRUE, exc |-> FALSE]
        ELSE Bind(Callback([Release(W, s, force) EXCEPT !.pl[s].playing = FALSE],
                           s, "Stop", 0, 0), LAMBDA r :
                 IF r.exc \/ ~r.w.pl[s].has_callbacks
                 THEN [w |-> r.w, ret |-> FALSE, exc |-> TRUE]
                 ELSE [w |-> [r.w EXCEPT !.pl[s].has_callbacks = FALSE,
                                         !.pl[s].callbacks = <<>>],
                       ret |-> TRUE, exc |-> FALSE]))

\* FFmpegAudioPlayer.Stop: [w: the state after, ret: the value returned,
\* exc: whether it raised instead of returning]
Stop(W0, s, force) ==
    Bind(W0, LAMBDA W :
        IF ~W.pl[s].playing
        THEN [w |-> W, ret |-> FALSE, exc |-> FALSE]
        ELSE Bind(Callback([Release(W, s, force) EXCEPT !.pl[s].playing = FALSE],
                           s, "Stop", 0, 0), LAMBDA r :
                 IF r.exc \/ ~r.w.pl[s].has_callbacks
                 THEN [w |-> r.w, ret |-> FALSE, exc |-> TRUE]
                 ELSE [w |-> [r.w EXCEPT !.pl[s].has_callbacks = FALSE,
                                         !.pl[s].callbacks = <<>>],
                       ret |-> TRUE, exc |-> FALSE]))

\* FFmpegAudioPlayer.PlayURI (returns True)
PlayURI(W, s) ==
    [W EXCEPT !.pl[s].playing = TRUE, !.task[s].stream = "start"]

\* AudioClip.Play and AudioClip.Stop: the session's wrappers of its pipeline.
\* `fault` says that this Stop call raises before it changes anything.
AudioClipPlay(W, s) == PlayURI(W, s)
AudioClipStop(W, s, fault) ==
    IF fault THEN [w |-> W, ret |-> FALSE, exc |-> TRUE]
    ELSE Stop(W, s, TRUE)

\* ------------------------------------------------------------ AudioManager

\* line 52 as it would be with `<=`
CheckLimitsInclusive(W, u, level, st, now) ==
    IF ~HasTier(level) THEN [w |-> W, ret |-> TRUE]
    ELSE LET t == Tier(level)
             time_elapsed == now - st.LastUse
             use_delay == st.LastUseLength * t.DelayFactor
         IN  IF t.Uses >= 0 /\ st.Uses >= t.Uses
             THEN [w |-> SayPrivate(W, u, "UsedUpUses", t.Uses), ret |-> FALSE]
             ELSE IF st.TimeUsed >= t.TotalTime
             THEN [w |-> SayPrivate(W, u, "UsedUpTime", t.TotalTime),
                   ret |-> FALSE]
             ELSE IF time_elapsed <= use_delay
             THEN [w |-> SayPrivate(W, u, "Cooldown", use_delay - time_elapsed),
                   ret |-> FALSE]
             ELSE [w |-> W, ret |-> TRUE]

\* CheckLimits as it would be with the test of lines 40-47 before the test
\* of lines 27-37
CheckLimitsTimeFirst(W, u, level, st, now) ==
    IF ~HasTier(level) THEN [w |-> W, ret |-> TRUE]
    ELSE LET t == Tier(level)
             time_elapsed == now - st.LastUse
             use_delay == st.LastUseLength * t.DelayFactor
         IN  IF st.TimeUsed >= t.TotalTime
             THEN [w |-> SayPrivate(W, u, "UsedUpTime", t.TotalTime),
                   ret |-> FALSE]
             ELSE IF t.Uses >= 0 /\ st.Uses >= t.Uses
             THEN [w |-> SayPrivate(W, u, "UsedUpUses", t.Uses), ret |-> FALSE]
             ELSE IF time_elapsed < use_delay
             THEN [w |-> SayPrivate(W, u, "Cooldown", use_delay - time_elapsed),
                   ret |-> FALSE]
             ELSE [w |-> W, ret |-> TRUE]

\* AudioManager.CheckLimits on the ledger entry st at loop time now
CheckLimits(W, u, level, st, now) ==
    IF ~HasTier(level) THEN [w |-> W, ret |-> TRUE]
    ELSE LET t == Tier(level)
             time_elapsed == now - st.LastUse
             use_delay == st.LastUseLength * t.DelayFactor
         IN  IF t.Uses >= 0 /\ st.Uses >= t.Uses
             THEN [w |-> SayPrivate(W, u, "UsedUpUses", t.Uses), ret |-> FALSE]
             ELSE IF st.TimeUsed >= t.TotalTime
             THEN [w |-> SayPrivate(W, u, "UsedUpTime", t.TotalTime),
                   ret |-> FALSE]
             ELSE IF time_elapsed < use_delay
             THEN [w |-> SayPrivate(W, u, "Cooldown", use_delay - time_elapsed),
                   ret |-> FALSE]
             ELSE [w |-> W, ret |-> TRUE]

\* line 138 as it would be with `>=`
DisabledForAtLeast(flag, level) == flag # 0 /\ flag >= level

\* `self.torchlight.disabled and self.torchlight.disabled > level`
DisabledFor(flag, level) == flag # 0 /\ flag > level

\* the listeners as they would be without the test of line 153
ListenersAlwaysSpam(level) ==
    <<(<<"Stop", "remove">>)>>
    \o << <<"Play", "spam">>, <<"Stop", "spam">>, <<"Update", "spam">> >>
    \o << <<"Play", "adv">>, <<"Stop", "adv">>, <<"Update", "adv">> >>

\* the listeners as they would be without line 151
ListenersNoRemove(level) ==
    (IF level < ImmunityLevel
     THEN << <<"Play", "spam">>, <<"Stop", "spam">>, <<"Update", "spam">> >>
     ELSE <<>>)
    \o << <<"Play", "adv">>, <<"Stop", "adv">>, <<"Update", "adv">> >>

\* the listeners as they would be with line 151 moved behind line 163
ListenersRemoveLast(level) ==
    (IF level < ImmunityLevel
     THEN << <<"Play", "spam">>, <<"Stop", "spam">>, <<"Update", "spam">> >>
     ELSE <<>>)
    \o << <<"Play", "adv">>, <<"Stop", "adv">>, <<"Update", "adv">> >>
    \o <<(<<"Stop", "remove">>)>>

\* the listeners AudioManager.AudioClip attaches, in order (lines 151-163)
Listeners(level) ==
    <<(<<"Stop", "remove">>)>>
    \o (IF level < ImmunityLevel
        THEN << <<"Play", "spam">>, <<"Stop", "spam">>, <<"Update", "spam">> >>
        ELSE <<>>)
    \o << <<"Play", "adv">>, <<"Stop", "adv">>, <<"Update", "adv">> >>

\* AudioManager.AudioClip: ret is the new session's id, 0 for None.
\* spam_ok is the answer of anti_spam.CheckAntiSpam, xb the behaviour of
\* the external listeners of the new session.
AudioClip(W, u, level, spam_ok, st, now, xb) ==
    IF DisabledFor(disabled, level)
    THEN [w |-> SayPrivate(W, u, "Disabled", 0), ret |-> 0]
    ELSE LET W1 == [W EXCEPT !.out = Append(@, Ent("CheckAntiSpam", u, "", 0, 0))]
         IN  IF ~spam_ok THEN [w |-> W1, ret |-> 0]
             ELSE LET r == CheckLimits(W1, u, level, st, now)
                      s == Len(W.clips) + 1
                  IN  IF ~r.ret THEN [w |-> r.w, ret |-> 0]
                      ELSE [w |-> [r.w EXCEPT
                                !.clips = Append(@, [player |-> u, level |-> level,
                                                     stops |-> {}, xb |-> xb,
                                                     position |-> 0]),
                                !.pl = Append(@, [NewPlayer EXCEPT
                                                  !.callbacks = Listeners(level)]),
                                !.task = Append(@, NewTask),
                                !.env = Append(@, NewEnv),
                                !.ev = Append(@, NewEv),
                                !.audio_clips = Append(@, s)],
                            ret |-> s]

\* `if extra and extra.lower() not in clip_player.name.lower(): continue`
FilteredOut(extra, name) ==
    extra # <<>> /\ ~IsSubstring(Lower(extra), Lower(name))

\* lines 78-86 as they would be with `level > stop_level` at line 81
CanStopNowAbove(u, level, c) ==
    u = c.player \/ level > StopLevel \/ level > c.level

\* the permission precedence of AudioManager.Stop (lines 78-86)
CanStopNow(u, level, c) ==
    u = c.player \/ level >= StopLevel \/ level > c.level

\* line 89 as it would be with a quorum of 2
VotesNeededTwo(stops) == 2 - Cardinality(stops)

\* `votes_needed = 3 - len(audio_clip.stops)`
VotesNeeded(stops) == Quorum - Cardinality(stops)

\* the loop of AudioManager.Stop as it would be without the test of line
\* 103: the owner is notified of every stop
RECURSIVE StopScanNotifyAll(_, _, _, _, _, _, _, _)
StopScanNotifyAll(W, snap, i, u, level, extra, count, faulty) ==
    IF i > Len(snap) THEN [w |-> W, count |-> count, exc |-> FALSE]
    ELSE
    LET s == snap[i]
        c == W.clips[s]
        voting == ~CanStopNow(u, level, c)
        W1 == IF voting THEN [W EXCEPT !.clips[s].stops = @ \cup {u}] ELSE W
        needed == VotesNeeded(W1.clips[s].stops)
        r == AudioClipStop(W1, s, s \in faulty)
    IN  IF FilteredOut(extra, Name(c.player))
        THEN StopScanNotifyAll(W, snap, i + 1, u, level, extra, count, faulty)
        ELSE IF voting /\ needed > 0
        THEN StopScanNotifyAll(SayPrivate(W1, u, "NeedMore", needed),
                               snap, i + 1, u, level, extra, count, faulty)
        ELSE IF r.exc THEN [w |-> r.w, count |-> count, exc |-> TRUE]
        ELSE IF r.ret
        THEN StopScanNotifyAll(SayPrivate(r.w, c.player, "StoppedBy", u),
                               snap, i + 1, u, level, extra, count + 1, faulty)
        ELSE StopScanNotifyAll(r.w, snap, i + 1, u, level, extra, count,
                               faulty)

\* the loop of AudioManager.Stop as it would be with the vote of line 88
\* recorded before the permission tests of lines 78-86
RECURSIVE StopScanVoteFirst(_, _, _, _, _, _, _, _)
StopScanVoteFirst(W, snap, i, u, level, extra, count, faulty) ==
    IF i > Len(snap) THEN [w |-> W, count |-> count, exc |-> FALSE]
    ELSE
    LET s == snap[i]
        c == W.clips[s]
        voting == ~CanStopNow(u, level, c)
        W1 == [W EXCEPT !.clips[s].stops = @ \cup {u}]
        needed == VotesNeeded(W1.clips[s].stops)
        r == AudioClipStop(W1, s, s \in faulty)
    IN  IF FilteredOut(extra, Name(c.player))
        THEN StopScanVoteFirst(W, snap, i + 1, u, level, extra, count, faulty)
        ELSE IF voting /\ needed > 0
        THEN StopScanVoteFirst(SayPrivate(W1, u, "NeedMore", needed),
                               snap, i + 1, u, level, extra, count, faulty)
        ELSE IF r.exc THEN [w |-> r.w, count |-> count, exc |-> TRUE]
        ELSE IF r.ret
        THEN StopScanVoteFirst(IF u # c.player
                               THEN SayPrivate(r.w, c.player, "StoppedBy", u)
                               ELSE r.w,
                               snap, i + 1, u, level, extra, count + 1, faulty)
        ELSE StopScanVoteFirst(r.w, snap, i + 1, u, level, extra, count, faulty)

\* the loop of AudioManager.Stop over the snapshot, from index i
RECURSIVE StopScan(_, _, _, _, _, _, _, _)
StopScan(W, snap, i, u, level, extra, count, faulty) ==
    IF i > Len(snap) THEN [w |-> W, count |-> count, exc |-> FALSE]
    ELSE
    LET s == snap[i]
        c == W.clips[s]
        voting == ~CanStopNow(u, level, c)
        W1 == IF voting THEN [W EXCEPT !.clips[s].stops = @ \cup {u}] ELSE W
        needed == VotesNeeded(W1.clips[s].stops)
        r == AudioClipStop(W1, s, s \in faulty)
    IN  IF FilteredOut(extra, Name(c.player))
        THEN StopScan(W, snap, i + 1, u, level, extra, count, faulty)
        ELSE IF voting /\ needed > 0
        THEN StopScan(SayPrivate(W1, u, "NeedMore", needed),
                      snap, i + 1, u, level, extra, count, faulty)
        ELSE IF r.exc THEN [w |-> r.w, count |-> count, exc |-> TRUE]
        ELSE IF r.ret
        THEN StopScan(IF u # c.player
                      THEN SayPrivate(r.w, c.player, "StoppedBy", u) ELSE r.w,
                      snap, i + 1, u, level, extra, count + 1, faulty)
        ELSE StopScan(r.w, snap, i + 1, u, level, extra, count, faulty)

\* AudioManager.Stop as it would be with `else` for `elif not extra` at
\* line 113
ManagerStopHintAlways(W, u, level, extra, faulty) ==
    IF W.audio_clips = <<>>
    THEN [w |-> SayPrivate(W, u, "NoAudio", 0), count |-> 0, exc |-> FALSE]
    ELSE LET r == StopScan(W, W.audio_clips, 1, u, level, extra, 0, faulty)
         IN  IF r.exc THEN r
             ELSE IF r.count > 0
             THEN [r EXCEPT !.w = SayPrivate(r.w, u, "StoppedCount", r.count)]
             ELSE [r EXCEPT !.w = SayPrivate(r.w, u, "NoMatchHint", 0)]

\* AudioManager.Stop
ManagerStop(W, u, level, extra, faulty) ==
    IF W.audio_clips = <<>>
    THEN [w |-> SayPrivate(W, u, "NoAudio", 0), count |-> 0, exc |-> FALSE]
    ELSE LET r == StopScan(W, W.audio_clips, 1, u, level, extra, 0, faulty)
         IN  IF r.exc THEN r
             ELSE IF r.count > 0
             THEN [r EXCEPT !.w = SayPrivate(r.w, u, "StoppedCount", r.count)]
             ELSE IF extra = <<>>
             THEN [r EXCEPT !.w = SayPrivate(r.w, u, "NoMatchHint", 0)]
             ELSE r

\* the loop of StopAll as it would be over self.audio_clips itself instead
\* of the copy of line 121
RECURSIVE StopAllScanLive(_, _, _)
StopAllScanLive(W, i, faulty) ==
    IF i > Len(W.audio_clips) THEN W
    ELSE LET s == W.audio_clips[i]
             r == AudioClipStop(W, s, s \in faulty)
             W1 == IF r.exc THEN LogError(r.w, s, "StopError") ELSE r.w
         IN  StopAllScanLive(SayPrivate(W1, W.clips[s].player, "ForceStopped", 0),
                             i + 1, faulty)
ManagerStopAllLive(W, faulty) ==
    [StopAllScanLive(W, 1, faulty) EXCEPT !.audio_clips = <<>>]

\* the loop of AudioManager.StopAll over the snapshot, from index i
RECURSIVE StopAllScan(_, _, _, _)
StopAllScan(W, snap, i, faulty) ==
    IF i > Len(snap) THEN W
    ELSE LET s == snap[i]
             r == AudioClipStop(W, s, s \in faulty)
             W1 == IF r.exc THEN LogError(r.w, s, "StopError") ELSE r.w
         IN  StopAllScan(SayPrivate(W1, W.clips[s].player, "ForceStopped", 0),
                         snap, i + 1, faulty)

\* StopAll as it would be without line 128
ManagerStopAllNoClear(W, faulty) ==
    StopAllScan(W, W.audio_clips, 1, faulty)

\* AudioManager.StopAll
ManagerStopAll(W, faulty) ==
    [StopAllScan(W, W.audio_clips, 1, faulty) EXCEPT !.audio_clips = <<>>]

\* AudioManager.OnDisconnect, the loop from index i
RECURSIVE DisconnectScan(_, _, _, _, _)
DisconnectScan(W, snap, i, u, faulty) ==
    IF i > Len(snap) THEN [w |-> W, exc |-> FALSE]
    ELSE LET s == snap[i]
             r == AudioClipStop(W, s, s \in faulty)
         IN  IF W.clips[s].player # u
             THEN DisconnectScan(W, snap, i + 1, u, faulty)
             ELSE IF r.exc THEN [w |-> r.w, exc |-> TRUE]
             ELSE DisconnectScan(r.w, snap, i + 1, u, faulty)

\* OnDisconnect as it would be iterating over self.audio_clips itself
\* instead of the copy self.audio_clips[:] of line 168
RECURSIVE DisconnectScanLive(_, _, _, _)
DisconnectScanLive(W, i, u, faulty) ==
    IF i > Len(W.audio_clips) THEN [w |-> W, exc |-> FALSE]
    ELSE LET s == W.audio_clips[i]
             r == AudioClipStop(W, s, s \in faulty)
         IN  IF W.clips[s].player # u
             THEN DisconnectScanLive(W, i + 1, u, faulty)
             ELSE IF r.exc THEN [w |-> r.w, exc |-> TRUE]
             ELSE DisconnectScanLive(r.w, i + 1, u, faulty)

ManagerOnDisconnectLive(W, u, faulty) == DisconnectScanLive(W, 1, u, faulty)

ManagerOnDisconnect(W, u, faulty) ==
    DisconnectScan(W, W.audio_clips, 1, u, faulty)

\* ------------------------------------------- the pipeline's coroutines

\* `except Exception: self.Stop(); self.torchlight.SayChat(...)`
Handler(W, s, msg) ==
    Bind(Stop(W, s, TRUE), LAMBDA r :
        IF r.exc THEN r.w ELSE SayChat(r.w, msg))

Min(a, b) == IF a < b THEN a ELSE b

\* len(data) / SAMPLEBYTES / self.sample_rate
ChunkSeconds(bytes) == (bytes \div SAMPLEBYTES) \div SampleRate

\* the largest value self.seconds can take
MaxSeconds == MaxChunks * ChunkSeconds(4)

\* _stream_subprocess, line 277: the check made when the task first runs
StreamStartStep(W, s) ==
    IF ~W.pl[s].playing
    THEN [W EXCEPT !.task[s].stream = "done"]
    ELSE [W EXCEPT !.task[s].stream = "open"]

\* line 281 resumes with the connection
ConnOpenedStep(W, s) ==
    [W EXCEPT !.pl[s].writer = 1, !.env[s].conns = @ + 1,
              !.task[s].stream = "curl"]

\* lines 285-288 resume with the fetch process
CurlSpawnedStep(W, s) ==
    [W EXCEPT !.pl[s].curl_process = 1, !.env[s].curls = @ + 1,
              !.task[s].stream = "ffmpeg"]

\* lines 290-301 resume with the transcode process, which will produce n
\* chunks, and create the tasks; line 298 reads self.curl_process.stdout
FfmpegSpawnedStep(W, s, n) ==
    LET W1 == [W EXCEPT !.pl[s].ffmpeg_process = 1,
                        !.env[s].ffmpegs = @ + 1,
                        !.env[s].left = n,
                        !.task[s].wait = "start",
                        !.task[s].wait_arg = W.pl[s].curl_process]
    IN  IF W.pl[s].curl_process = 0
        THEN [Handler(W1, s, "ErrorPlayingAudio") EXCEPT !.task[s].stream = "done"]
        ELSE [W1 EXCEPT !.task[s].write = "start", !.task[s].read = "start",
                        !.task[s].stream = "wait"]

\* open_connection or create_subprocess_exec raises: lines 322-325
SpawnFailedStep(W, s) ==
    [Handler(W, s, "ErrorPlayingAudio") EXCEPT !.task[s].stream = "done"]

\* lines 315-320 as they would be without the check of self.seconds
FfmpegWaitStepNoCheck(W, s) ==
    LET W1 == [W EXCEPT !.task[s].stream = "done"]
    IN  IF W.pl[s].ffmpeg_process = 0
        THEN Handler(W1, s, "ErrorPlayingAudio")
        ELSE W1

\* lines 315-320, once the awaited process has exited
FfmpegWaitStep(W, s) ==
    LET W1 == [W EXCEPT !.task[s].stream = "done"]
    IN  IF W.pl[s].ffmpeg_process = 0
        THEN Handler(W1, s, "ErrorPlayingAudio")
        ELSE IF W.pl[s].seconds = 0
        THEN Stop(W1, s, TRUE).w
        ELSE W1

\* _read_stream: the loop test `while stream and self.playing`, line 267
\* when it fails
ReadLoop(W, s) ==
    IF W.pl[s].playing
    THEN [W EXCEPT !.task[s].read = "read"]
    ELSE [W EXCEPT !.task[s].read = "done", !.pl[s].stopped_playing = TRUE]

\* line 243 resumes with a chunk of `bytes` bytes; lines 247-250
ReadChunkStep(W, s, bytes) ==
    [W EXCEPT !.env[s].buf = @ - 1, !.task[s].data = bytes,
              !.task[s].read = "drain"]

\* line 243 resumes with b"": line 245, then line 267
ReadEOFStep(W, s) ==
    [W EXCEPT !.task[s].read = "done", !.pl[s].stopped_playing = TRUE]

\* lines 254-265 as they would be without the `started` flag
DrainOkStepEveryChunk(W, s) ==
    LET W1 == [W EXCEPT !.pl[s].seconds = @ + ChunkSeconds(W.task[s].data),
                        !.task[s].data = 0]
        r == Callback([W1 EXCEPT !.task[s].started = TRUE], s, "Play", 0, 0)
    IN  IF r.exc
        THEN [Handler(r.w, s, "Error") EXCEPT !.task[s].read = "done"]
        ELSE ReadLoop([r.w EXCEPT !.pl[s].started_playing = TRUE,
                                  !.task[s].upd =
                                      IF @ = "idle" THEN "start" ELSE @], s)

\* drain returns: lines 254-265, then the loop test
DrainOkStep(W, s) ==
    LET W1 == [W EXCEPT !.pl[s].seconds = @ + ChunkSeconds(W.task[s].data),
                        !.task[s].data = 0]
        r == Callback([W1 EXCEPT !.task[s].started = TRUE], s, "Play", 0, 0)
    IN  IF W.task[s].started THEN ReadLoop(W1, s)
        ELSE IF r.exc
        THEN [Handler(r.w, s, "Error") EXCEPT !.task[s].read = "done"]
        ELSE ReadLoop([r.w EXCEPT !.pl[s].started_playing = TRUE,
                                  !.task[s].upd = "start"], s)

\* drain raises ConnectionResetError or BrokenPipeError: line 252
DrainResetStep(W, s) ==
    [W EXCEPT !.task[s].read = "done", !.task[s].data = 0]

\* drain raises another exception: lines 268-271
DrainErrorStep(W, s) ==
    [Handler(W, s, "Error") EXCEPT !.task[s].read = "done", !.task[s].data = 0]

\* _updater as it would be without the clamp of lines 218-219
UpdaterStepNoClamp(W, s, elapsed) ==
    LET t == W.task[s]
        seconds_elapsed == IF W.pl[s].started_playing THEN elapsed ELSE 0
        W0 == [W EXCEPT !.task[s].elapsed = elapsed]
        r == Callback(W0, s, "Update", t.last, seconds_elapsed)
        st == Stop(r.w, s, FALSE)
    IN  IF ~W.pl[s].playing THEN [W0 EXCEPT !.task[s].upd = "done"]
        ELSE IF r.exc
        THEN [Handler(r.w, s, "Error") EXCEPT !.task[s].upd = "done"]
        ELSE IF seconds_elapsed >= r.w.pl[s].seconds
        THEN IF st.exc
             THEN [Handler(st.w, s, "Error") EXCEPT !.task[s].upd = "done"]
             ELSE [st.w EXCEPT !.task[s].upd = "done"]
        ELSE [r.w EXCEPT !.task[s].last = seconds_elapsed,
                         !.task[s].upd = "sleep"]

\* _updater as it would be with `seconds_elapsed > self.seconds` at line 223
UpdaterStepStrict(W, s, elapsed) ==
    LET t == W.task[s]
        raw == IF W.pl[s].started_playing THEN elapsed ELSE 0
        seconds_elapsed == IF raw > W.pl[s].seconds THEN W.pl[s].seconds ELSE raw
        W0 == [W EXCEPT !.task[s].elapsed = elapsed]
        r == Callback(W0, s, "Update", t.last, seconds_elapsed)
        st == Stop(r.w, s, FALSE)
    IN  IF ~W.pl[s].playing THEN [W0 EXCEPT !.task[s].upd = "done"]
        ELSE IF r.exc
        THEN [Handler(r.w, s, "Error") EXCEPT !.task[s].upd = "done"]
        ELSE IF seconds_elapsed > r.w.pl[s].seconds
        THEN IF st.exc
             THEN [Handler(st.w, s, "Error") EXCEPT !.task[s].upd = "done"]
             ELSE [st.w EXCEPT !.task[s].upd = "done"]
        ELSE [r.w EXCEPT !.task[s].last = seconds_elapsed,
                         !.task[s].upd = "sleep"]

\* one pass of the loop of _updater at clock value `elapsed`
UpdaterStep(W, s, elapsed) ==
    LET t == W.task[s]
        raw == IF W.pl[s].started_playing THEN elapsed ELSE 0
        seconds_elapsed == IF raw > W.pl[s].seconds THEN W.pl[s].seconds ELSE raw
        W0 == [W EXCEPT !.task[s].elapsed = elapsed]
        r == Callback(W0, s, "Update", t.last, seconds_elapsed)
        st == Stop(r.w, s, FALSE)
    IN  IF ~W.pl[s].playing THEN [W0 EXCEPT !.task[s].upd = "done"]
        ELSE IF r.exc
        THEN [Handler(r.w, s, "Error") EXCEPT !.task[s].upd = "done"]
        ELSE IF seconds_elapsed >= r.w.pl[s].seconds
        THEN IF st.exc
             THEN [Handler(st.w, s, "Error") EXCEPT !.task[s].upd = "done"]
             ELSE [st.w EXCEPT !.task[s].upd = "done"]
        ELSE [r.w EXCEPT !.task[s].last = seconds_elapsed,
                         !.task[s].upd = "sleep"]

\* _write_stream returns (end of the fetch output, or a reset pipe)
WriteReturnStep(W, s) == [W EXCEPT !.task[s].write = "done"]

\* _write_stream: lines 358-361
WriteErrorStep(W, s) ==
    [Handler(W, s, "Error") EXCEPT !.task[s].write = "done"]

\* _wait_for_process_exit: curl_process.wait() has returned
WaitReturnStep(W, s) == [W EXCEPT !.task[s].wait = "done"]

\* _wait_for_process_exit(None): lines 368-371
WaitErrorStep(W, s) ==
    [Handler(W, s, "Error") EXCEPT !.task[s].wait = "done"]

\* ---------------------------------------------------------------- actions

Op(name, s, u, level, extra, ret) ==
    [name |-> name, s |-> s, u |-> u, level |-> level, extra |-> extra,
     ret |-> ret]

Commit(W0, o) ==
    \E W \in {W0} :
        /\ audio_clips' = W.audio_clips
        /\ clips' = W.clips
        /\ pl' = W.pl
        /\ task' = W.task
        /\ env' = W.env
        /\ ev' = W.ev
        /\ storage' = W.storage
        /\ out' = W.out
        /\ op' = o

\* the ledger entry of a player who has not played yet
FreshLedger == [Uses |-> 0, TimeUsed |-> 0, LastUse |-> 0, LastUseLength |-> 0]

Init ==
    /\ audio_clips = <<>>
    /\ clips = <<>>
    /\ pl = <<>>
    /\ task = <<>>
    /\ env = <<>>
    /\ ev = <<>>
    /\ disabled = 0
    /\ disable_votes = {}
    /\ storage = [u \in Users |-> FreshLedger]
    /\ clock = 0
    /\ op = Op("Init", 0, 0, 0, <<>>, 0)
    /\ out = <<>>

\* the ledger entries and loop times a request is made with
Ledgers ==
    {FreshLedger,
     [FreshLedger EXCEPT !.Uses = 2],
     [FreshLedger EXCEPT !.TimeUsed = 3],
     [FreshLedger EXCEPT !.LastUse = 1, !.LastUseLength = 1]}
Behaviours == {"ok", "raise", "stop"}
\* the players who request playback in SpecMgr
Requesters == {1, 2}
\* the players who request playback in SpecAuth: the lowest and the highest
Owners == {2, 6}
\* the players who ask to stop in SpecFault: an owner and an authority
Stoppers == {1, 5}
\* the player who requests playback in SpecLedger: level 0, a tier of 2 uses
Spender == 2

\* a play command: AudioManager.AudioClip, then AudioClip.Play and, for
\* `late`, the Stop listener the command adds (Commands.py:1260-1267)
PlayCommand(u, spam_ok, st, now, xb, late, limit) ==
    /\ Len(clips) < limit
    /\ LET level == Level(u)
           r == AudioClip(World, u, level, spam_ok, st, now, xb)
           W1 == AudioClipPlay(r.w, r.ret)
           W2 == IF late THEN AddCallback(W1, r.ret, "Stop", "unlink") ELSE W1
       IN  IF r.ret = 0
           THEN Commit(r.w, Op("PlayCommand", 0, u, level, <<>>, 0))
           ELSE Commit(W2, Op("PlayCommand", r.ret, u, level, <<>>, 1))
    /\ UNCHANGED <<disabled, disable_votes, clock>>

\* AudioManager.Stop(player, extra), as the Stop command calls it
StopRequest(u, extra, faulty) ==
    /\ LET level == Level(u)
           r == ManagerStop(World, u, level, extra, faulty)
       IN  Commit(r.w, Op(IF r.exc THEN "StopRequest!" ELSE "StopRequest",
                          0, u, level, extra, r.count))
    /\ UNCHANGED <<disabled, disable_votes, clock>>

\* AudioManager.StopAll(), as the StopAll command calls it; ret is the
\* number of sessions listed when it was called
ForceStopAll(faulty) ==
    /\ Commit(ManagerStopAll(World, faulty),
              Op("ForceStopAll", 0, 0, 0, <<>>, Len(audio_clips)))
    /\ UNCHANGED <<disabled, disable_votes, clock>>

\* a player leaves: AudioManager.OnDisconnect(player)
OnDisconnect(u, faulty) ==
    /\ LET r == ManagerOnDisconnect(World, u, faulty)
       IN  Commit(r.w, Op(IF r.exc THEN "OnDisconnect!" ELSE "OnDisconnect",
                          0, u, 0, <<>>, 0))
    /\ UNCHANGED <<disabled, disable_votes, clock>>

\* Disable._func (Commands.py:1552-1570)
Disable(u) ==
    /\ LET level == Level(u) IN
       IF disabled = 0
       THEN IF disabled > level
            THEN /\ disabled' = disabled
                 /\ out' = <<Ent("SayPrivate", u, "NoAccessDisable", 0, 0)>>
                 /\ op' = Op("Disable", 0, u, level, <<>>, 1)
            ELSE /\ disabled' = level
                 /\ out' = <<Ent("SayChat", 0, "DisabledNow", 0, 0)>>
                 /\ op' = Op("Disable", 0, u, level, <<>>, 0)
       ELSE /\ disabled' = disabled
            /\ out' = <<Ent("SayChat", 0, "AlreadyDisabled", 0, 0)>>
            /\ op' = Op("Disable", 0, u, level, <<>>, 0)
    /\ UNCHANGED <<audio_clips, clips, pl, task, env, ev, disable_votes,
                   storage, clock>>

\* Enable._func as it would be without the level comparison of line 1535
EnableAnyLevel(u) ==
    /\ LET level == Level(u) IN
       IF disabled # 0
       THEN /\ disabled' = 0
            /\ out' = <<Ent("SayChat", 0, "EnabledNow", 0, 0)>>
            /\ op' = Op("Enable", 0, u, level, <<>>, 0)
       ELSE /\ disabled' = disabled
            /\ out' = <<Ent("SayChat", 0, "AlreadyEnabled", 0, 0)>>
            /\ op' = Op("Enable", 0, u, level, <<>>, 0)
    /\ UNCHANGED <<audio_clips, clips, pl, task, env, ev, disable_votes,
                   storage, clock>>

\* Enable._func (Commands.py:1530-1549)
Enable(u) ==
    /\ LET level == Level(u) IN
       IF disabled # 0
       THEN IF disabled > level
            THEN /\ disabled' = disabled
                 /\ out' = <<Ent("SayPrivate", u, "NoAccessEnable", 0, 0)>>
                 /\ op' = Op("Enable", 0, u, level, <<>>, 1)
            ELSE /\ disabled' = 0
                 /\ out' = <<Ent("SayChat", 0, "EnabledNow", 0, 0)>>
                 /\ op' = Op("Enable", 0, u, level, <<>>, 0)
       ELSE /\ disabled' = disabled
            /\ out' = <<Ent("SayChat", 0, "AlreadyEnabled", 0, 0)>>
            /\ op' = Op("Enable", 0, u, level, <<>>, 0)
    /\ UNCHANGED <<audio_clips, clips, pl, task, env, ev, disable_votes,
                   storage, clock>>

\* VoteDisable._func (Commands.py:575-599); player_count is the number of
\* players the player manager reports at the time of the vote
VoteDisable(u, player_count) ==
    /\ LET level == Level(u)
           votes == disable_votes \cup {u}
           have == Cardinality(votes)
           needed == player_count \div VoteShare
       IN
       IF disabled # 0
       THEN /\ disabled' = disabled
            /\ disable_votes' = disable_votes
            /\ out' = <<Ent("SayPrivate", u, "AlreadyDisabledVote", 0, 0)>>
            /\ op' = Op("VoteDisable", 0, u, level, <<>>, -1)
       ELSE /\ disable_votes' = votes
            /\ IF have >= needed
               THEN /\ disabled' = VoteLevel
                    /\ out' = <<Ent("SayChat", 0, "VoteDisabled", 0, 0)>>
               ELSE /\ disabled' = disabled
                    /\ out' = <<Ent("SayPrivate", u, "MoreVotes",
                                    needed - have, 0)>>
            /\ op' = Op("VoteDisable", 0, u, level, <<>>, 0)
    /\ UNCHANGED <<audio_clips, clips, pl, task, env, ev, storage, clock>>

Step(name, s, W) ==
    /\ Commit(W, Op(name, s, 0, 0, <<>>, 0))
    /\ UNCHANGED <<disabled, disable_votes, clock>>

\* how often x occurs in list
Count(list, x) == Cardinality({i \in 1..Len(list) : list[i] = x})

\* the kinds a client registers a listener for
Kinds == VALID_CALLBACKS \cup {"Seek"}

\* a holder of the clip calls audio_player.AddCallback(cbtype, late)
RegisterListener(s, cbtype) ==
    /\ Count(pl[s].callbacks, <<cbtype, "late">>) < MaxLate
    /\ LET r == TryAddCallback(World, s, cbtype, "late")
       IN  Commit(r.w, Op(IF r.exc THEN "AddCallback!" ELSE "AddCallback",
                          s, 0, 0, <<cbtype>>, IF r.ret THEN 1 ELSE 0))
    /\ UNCHANGED <<disabled, disable_votes, clock>>

\* a holder of the clip adds a Stop listener that stops the next session
RegisterChain(s) ==
    /\ Count(pl[s].callbacks, <<"Stop", "chain">>) = 0
    /\ LET r == TryAddCallback(World, s, "Stop", "chain")
       IN  Commit(r.w, Op(IF r.exc THEN "AddCallback!" ELSE "AddCallback",
                          s, 0, 0, <<"Stop">>, IF r.ret THEN 1 ELSE 0))
    /\ UNCHANGED <<disabled, disable_votes, clock>>

\* a holder of the clip plays it again: PlayURI on a pipeline whose Stop has
\* returned True and whose streaming task has ended
Replay(s) ==
    /\ ~pl[s].playing
    /\ ~pl[s].has_callbacks
    /\ task[s].stream = "done"
    /\ Step("PlayURI", s, PlayURI(World, s))

StreamStart(s) ==
    /\ task[s].stream = "start"
    /\ Step("StreamStart", s, StreamStartStep(World, s))

ConnOpened(s) ==
    /\ task[s].stream = "open"
    /\ Step("ConnOpened", s, ConnOpenedStep(World, s))

CurlSpawned(s) ==
    /\ task[s].stream = "curl"
    /\ Step("CurlSpawned", s, CurlSpawnedStep(World, s))

FfmpegSpawned(s, n) ==
    /\ task[s].stream = "ffmpeg"
    /\ Step("FfmpegSpawned", s, FfmpegSpawnedStep(World, s, n))

SpawnFailed(s) ==
    /\ task[s].stream \in {"open", "curl", "ffmpeg"}
    /\ Step("SpawnFailed", s, SpawnFailedStep(World, s))

FfmpegWaitReturn(s) ==
    /\ task[s].stream = "wait"
    /\ env[s].ffmpegs = 0
    /\ Step("FfmpegWaitReturn", s, FfmpegWaitStep(World, s))

\* the transcoder writes a chunk to its stdout pipe
FfmpegProduce(s) ==
    /\ env[s].ffmpegs > 0
    /\ env[s].left > 0
    /\ env[s].buf < PipeCap
    /\ Step("FfmpegProduce", s,
            [World EXCEPT !.env[s].left = @ - 1, !.env[s].buf = @ + 1])

\* the transcoder has written all its output and exits
FfmpegExit(s) ==
    /\ env[s].ffmpegs > 0
    /\ env[s].left = 0
    /\ Step("FfmpegExit", s, [World EXCEPT !.env[s].ffmpegs = @ - 1])

\* the fetch process exits
CurlExit(s) ==
    /\ env[s].curls > 0
    /\ Step("CurlExit", s, [World EXCEPT !.env[s].curls = @ - 1])

ReadStart(s) ==
    /\ task[s].read = "start"
    /\ Step("ReadStart", s, ReadLoop(World, s))

ReadChunk(s, bytes) ==
    /\ task[s].read = "read"
    /\ env[s].buf > 0
    /\ Step("ReadChunk", s, ReadChunkStep(World, s, bytes))

ReadEOF(s) ==
    /\ task[s].read = "read"
    /\ env[s].buf = 0
    /\ env[s].ffmpegs = 0
    /\ Step("ReadEOF", s, ReadEOFStep(World, s))

DrainOk(s) ==
    /\ task[s].read = "drain"
    /\ Step("DrainOk", s, DrainOkStep(World, s))

DrainReset(s) ==
    /\ task[s].read = "drain"
    /\ Step("DrainReset", s, DrainResetStep(World, s))

DrainError(s) ==
    /\ task[s].read = "drain"
    /\ Step("DrainError", s, DrainErrorStep(World, s))

UpdaterStart(s) ==
    /\ task[s].upd = "start"
    /\ Step("UpdaterTick", s, UpdaterStep(World, s, 0))

\* asyncio.sleep(0.1) returns after dt clock units
UpdaterTick(s, dt) ==
    /\ task[s].upd = "sleep"
    /\ Step("UpdaterTick", s,
            UpdaterStep(World, s, Min(task[s].elapsed + dt, MaxSeconds)))

WriteReturn(s) ==
    /\ task[s].write = "start"
    /\ Step("WriteReturn", s, WriteReturnStep(World, s))

WriteError(s) ==
    /\ task[s].write = "start"
    /\ Step("WriteError", s, WriteErrorStep(World, s))

WaitReturn(s) ==
    /\ task[s].wait = "start"
    /\ task[s].wait_arg # 0
    /\ env[s].curls = 0
    /\ Step("WaitReturn", s, WaitReturnStep(World, s))

WaitError(s) ==
    /\ task[s].wait = "start"
    /\ task[s].wait_arg = 0
    /\ Step("WaitError", s, WaitErrorStep(World, s))

\* Spec: one session with every step of its pipeline; the commands are a
\* play request and the explicit stops (the owner's stop request, the
\* force stop, the owner's disconnect).
Next ==
    \/ \E xb \in Behaviours :
          PlayCommand(1, TRUE, FreshLedger, 1, xb, TRUE, MaxPipes)
    \/ StopRequest(1, <<>>, {})
    \/ ForceStopAll({})
    \/ OnDisconnect(1, {})
    \/ \E s \in Sessions : StreamStart(s)
    \/ \E s \in Sessions : ConnOpened(s)
    \/ \E s \in Sessions : CurlSpawned(s)
    \/ \E s \in Sessions, n \in 0..MaxChunks : FfmpegSpawned(s, n)
    \/ \E s \in Sessions : SpawnFailed(s)
    \/ \E s \in Sessions : FfmpegWaitReturn(s)
    \/ \E s \in Sessions : FfmpegProduce(s)
    \/ \E s \in Sessions : FfmpegExit(s)
    \/ \E s \in Sessions : CurlExit(s)
    \/ \E s \in Sessions : ReadStart(s)
    \/ \E s \in Sessions, bytes \in ChunkBytes : ReadChunk(s, bytes)
    \/ \E s \in Sessions : ReadEOF(s)
    \/ \E s \in Sessions : DrainOk(s)
    \/ \E s \in Sessions : DrainReset(s)
    \/ \E s \in Sessions : DrainError(s)
    \/ \E s \in Sessions : UpdaterStart(s)
    \/ \E s \in Sessions, dt \in 1..MaxDt : UpdaterTick(s, dt)
    \/ \E s \in Sessions : WriteReturn(s)
    \/ \E s \in Sessions : WriteError(s)
    \/ \E s \in Sessions : WaitReturn(s)
    \/ \E s \in Sessions : WaitError(s)

Spec == Init /\ [][Next]_vars

\* the steps of each task of a pipeline and of its two processes
StreamTask(s) ==
    \/ StreamStart(s)
    \/ ConnOpened(s)
    \/ CurlSpawned(s)
    \/ \E n \in 0..MaxChunks : FfmpegSpawned(s, n)
    \/ SpawnFailed(s)
    \/ FfmpegWaitReturn(s)
ReadTask(s) ==
    \/ ReadStart(s)
    \/ \E bytes \in ChunkBytes : ReadChunk(s, bytes)
    \/ ReadEOF(s)
    \/ DrainOk(s)
    \/ DrainReset(s)
    \/ DrainError(s)
UpdaterTask(s) == UpdaterStart(s) \/ \E dt \in 1..MaxDt : UpdaterTick(s, dt)
WriteTask(s) == WriteReturn(s) \/ WriteError(s)
WaitTask(s) == WaitReturn(s) \/ WaitError(s)
FfmpegProcess(s) == FfmpegProduce(s) \/ FfmpegExit(s)

\* the event loop runs every task that can run, every await that can
\* complete completes, and a process that can write or exit does
Fairness ==
    \A s \in 1..MaxPipes :
        /\ WF_vars(s \in Sessions /\ StreamTask(s))
        /\ WF_vars(s \in Sessions /\ ReadTask(s))
        /\ WF_vars(s \in Sessions /\ UpdaterTask(s))
        /\ WF_vars(s \in Sessions /\ WriteTask(s))
        /\ WF_vars(s \in Sessions /\ WaitTask(s))
        /\ WF_vars(s \in Sessions /\ FfmpegProcess(s))
        /\ WF_vars(s \in Sessions /\ CurlExit(s))

\* FairSpec: Spec under fair scheduling of the tasks
FairSpec == Init /\ [][Next]_vars /\ Fairness

\* SpecMgr: the registry with several sessions of several players; of the
\* pipelines only the start of the streaming task and its failure run.
NextMgr ==
    \/ \E u \in Requesters :
          PlayCommand(u, TRUE, FreshLedger, 1, "ok", TRUE, MaxClips)
    \/ \E u \in Users, extra \in Filters : StopRequest(u, extra, {})
    \/ ForceStopAll({})
    \/ \E u \in Users : OnDisconnect(u, {})
    \/ \E s \in Sessions : StreamStart(s)
    \/ \E s \in Sessions : SpawnFailed(s)

SpecMgr == Init /\ [][NextMgr]_vars

\* SpecFault: SpecMgr where a session's Stop may raise
NextFault ==
    \/ \E u \in Requesters :
          PlayCommand(u, TRUE, FreshLedger, 1, "ok", FALSE, MaxClips)
    \/ \E u \in Stoppers, faulty \in SUBSET Sessions :
          StopRequest(u, <<>>, faulty)
    \/ \E faulty \in SUBSET Sessions : ForceStopAll(faulty)
    \/ \E u \in Requesters, faulty \in SUBSET Sessions : OnDisconnect(u, faulty)
    \/ \E s \in Sessions : StreamStart(s)
    \/ \E s \in Sessions : SpawnFailed(s)

SpecFault == Init /\ [][NextFault]_vars

\* SpecAuth: stop requests of every player on the sessions of a player of
\* level 0 and of a player above the stop level
NextAuth ==
    \/ \E u \in Owners :
          PlayCommand(u, TRUE, FreshLedger, 1, "ok", TRUE, MaxClips)
    \/ \E u \in Users, extra \in {<<>>, <<"a">>} : StopRequest(u, extra, {})
    \/ \E s \in Sessions : StreamStart(s)
    \/ \E s \in Sessions : ConnOpened(s)

SpecAuth == Init /\ [][NextAuth]_vars

\* SpecAdmit: admission with every outcome of the three checks, and the
\* commands that set and clear the disable flag
NextAdmit ==
    \/ \E u \in Users, spam_ok \in BOOLEAN, st \in Ledgers :
          PlayCommand(u, spam_ok, st, 1, "ok", FALSE, MaxClips)
    \/ \E u \in Users : Disable(u)
    \/ \E u \in Users : Enable(u)
    \/ ForceStopAll({})

SpecAdmit == Init /\ [][NextAdmit]_vars

\* the player counts at the time of a vote: a vote of one is enough, or not
PlayerCounts == {4, 10}

\* SpecSwitch: the commands that set and clear the disable flag, by command
\* and by vote, between playback requests
NextSwitch ==
    \/ \E u \in Users :
          PlayCommand(u, TRUE, FreshLedger, 1, "ok", FALSE, MaxPipes)
    \/ \E u \in Users : Disable(u)
    \/ \E u \in Users : Enable(u)
    \/ \E u \in Users, player_count \in PlayerCounts :
          VoteDisable(u, player_count)
    \/ ForceStopAll({})

SpecSwitch == Init /\ [][NextSwitch]_vars

\* SpecLedger: the requests of one player of level 0, each admitted against
\* the player's ledger entry as it is at the time of the request, and the
\* steps of each pipeline up to its first chunk and its Play event
NextLedger ==
    \/ PlayCommand(Spender, TRUE, storage[Spender], clock, "ok", FALSE,
                   MaxBurst)
    \/ \E s \in Sessions : StreamStart(s)
    \/ \E s \in Sessions : ConnOpened(s)
    \/ \E s \in Sessions : CurlSpawned(s)
    \/ \E s \in Sessions : FfmpegSpawned(s, 1)
    \/ \E s \in Sessions : FfmpegProduce(s)
    \/ \E s \in Sessions : ReadStart(s)
    \/ \E s \in Sessions : ReadChunk(s, SAMPLEBYTES)
    \/ \E s \in Sessions : DrainOk(s)

SpecLedger == Init /\ [][NextLedger]_vars

\* the ledger entries SpecCool starts with: those of Ledgers, and every
\* last use up to MaxLast with none or one use counted
CoolLedgers ==
    Ledgers \cup
    {[Uses |-> n, TimeUsed |-> 0, LastUse |-> lu, LastUseLength |-> ll] :
        n \in {0, 1}, lu \in 0..MaxLast, ll \in 0..MaxLast}

\* loop.time() advances
Tick ==
    /\ clock < MaxClock
    /\ clock' = clock + 1
    /\ op' = Op("Tick", 0, 0, 0, <<>>, 0)
    /\ out' = <<>>
    /\ UNCHANGED <<audio_clips, clips, pl, task, env, ev, disabled,
                   disable_votes, storage>>

\* SpecCool: CheckLimits on every ledger entry of CoolLedgers at every loop
\* time from the entry's last use on; a stop records a new last use
InitCool ==
    /\ audio_clips = <<>>
    /\ clips = <<>>
    /\ pl = <<>>
    /\ task = <<>>
    /\ env = <<>>
    /\ ev = <<>>
    /\ disabled = 0
    /\ disable_votes = {}
    /\ \E st \in CoolLedgers : storage = [u \in Users |-> st]
    /\ clock \in 0..MaxClock
    /\ \A u \in Users : storage[u].LastUse <= clock
    /\ op = Op("Init", 0, 0, 0, <<>>, 0)
    /\ out = <<>>

NextCool ==
    \/ \E u \in Requesters :
          PlayCommand(u, TRUE, storage[u], clock, "ok", FALSE, MaxClips)
    \/ Tick
    \/ ForceStopAll({})

SpecCool == InitCool /\ [][NextCool]_vars

\* SpecFlood: one session with every step of its pipeline, whose
\* usage-accounting Update listener stops the clip
NextFlood ==
    \/ PlayCommand(1, TRUE, FreshLedger, 1, "flood", TRUE, MaxPipes)
    \/ StopRequest(1, <<>>, {})
    \/ \E s \in Sessions : StreamTask(s)
    \/ \E s \in Sessions : ReadTask(s)
    \/ \E s \in Sessions : UpdaterTask(s)
    \/ \E s \in Sessions : WriteTask(s)
    \/ \E s \in Sessions : WaitTask(s)
    \/ \E s \in Sessions : FfmpegProcess(s)
    \/ \E s \in Sessions : CurlExit(s)

SpecFlood == Init /\ [][NextFlood]_vars

\* SpecSnap: the scans of the registry over sessions whose Stop listeners
\* stop other sessions
NextSnap ==
    \/ \E u \in Requesters :
          PlayCommand(u, TRUE, FreshLedger, 1, "ok", FALSE, MaxClips + 1)
    \/ \E s \in Sessions : RegisterChain(s)
    \/ \E u \in {1, 3, 5}, extra \in {<<>>, <<"a", "B">>} :
          StopRequest(u, extra, {})
    \/ ForceStopAll({})
    \/ \E u \in Requesters : OnDisconnect(u, {})

SpecSnap == Init /\ [][NextSnap]_vars

\* SpecReplay: sessions that are stopped and played again, with the start
\* of the streaming task
NextReplay ==
    \/ \E u \in Requesters :
          PlayCommand(u, TRUE, FreshLedger, 1, "ok", FALSE, MaxClips)
    \/ \E u \in Requesters : StopRequest(u, <<>>, {})
    \/ \E s \in Sessions : Replay(s)
    \/ \E s \in Sessions : StreamStart(s)
    \/ \E s \in Sessions : ConnOpened(s)
    \/ \E s \in Sessions : CurlSpawned(s)
    \/ \E s \in Sessions : SpawnFailed(s)

SpecReplay == Init /\ [][NextReplay]_vars

\* SpecLimits: CheckLimits for every player on ledger entries in which any
\* of the three limits is reached, alone or together
LimitLedgers ==
    {[Uses |-> n, TimeUsed |-> t, LastUse |-> l, LastUseLength |-> l] :
        n \in {0, 2}, t \in {0, 3}, l \in {0, 1}}

InitLimits ==
    /\ audio_clips = <<>>
    /\ clips = <<>>
    /\ pl = <<>>
    /\ task = <<>>
    /\ env = <<>>
    /\ ev = <<>>
    /\ disabled = 0
    /\ disable_votes = {}
    /\ \E st \in LimitLedgers : storage = [u \in Users |-> st]
    /\ clock \in 1..2
    /\ op = Op("Init", 0, 0, 0, <<>>, 0)
    /\ out = <<>>

NextLimits ==
    \/ \E u \in Users :
          PlayCommand(u, TRUE, storage[u], clock, "ok", FALSE, MaxClips)
    \/ ForceStopAll({})

SpecLimits == InitLimits /\ [][NextLimits]_vars

\* SpecImmune: one session, of a player below or of a player at or above
\* the immunity level, with every step of its pipeline
NextImmune ==
    \/ \E u \in {2, 5} :
          PlayCommand(u, TRUE, FreshLedger, 1, "ok", FALSE, MaxPipes)
    \/ \E u \in {2, 5} : StopRequest(u, <<>>, {})
    \/ \E s \in Sessions : StreamTask(s)
    \/ \E s \in Sessions : ReadTask(s)
    \/ \E s \in Sessions : UpdaterTask(s)
    \/ \E s \in Sessions : WriteTask(s)
    \/ \E s \in Sessions : WaitTask(s)
    \/ \E s \in Sessions : FfmpegProcess(s)
    \/ \E s \in Sessions : CurlExit(s)

SpecImmune == Init /\ [][NextImmune]_vars

\* SpecApi: one session with every step of its pipeline, and a client that
\* registers listeners at any time
NextApi ==
    \/ PlayCommand(1, TRUE, FreshLedger, 1, "ok", FALSE, MaxPipes)
    \/ StopRequest(1, <<>>, {})
    \/ \E s \in Sessions, cbtype \in Kinds : RegisterListener(s, cbtype)
    \/ \E s \in Sessions : StreamTask(s)
    \/ \E s \in Sessions : ReadTask(s)
    \/ \E s \in Sessions : UpdaterTask(s)
    \/ \E s \in Sessions : FfmpegProcess(s)

SpecApi == Init /\ [][NextApi]_vars

\* ------------------------------------------------- CommandHandler.py

MaxCmds == 2   \* command classes known to Setup
MaxTrig == 2   \* triggers of one command
\* what a handler call does: return None, an int, a rewritten line (only
\* _rfunc), or raise
Ret(t, v) == [t |-> t, v |-> v]
NoneRet == Ret("None", 0)
StrRet == Ret("str", 0)
RaiseRet == Ret("raise", 0)
IntRets == {Ret("int", v) : v \in {-1, 0, 1}}
Rets == IntRets \cup {NoneRet, RaiseRet}
\* `ret is not None and ret >= 0`
Claims(ret) == ret.t = "int" /\ ret.v >= 0
\* the line a pattern handler returns when it rewrites the message
RewrittenLine == <<"!", "a">>
\* the chat lines
Lines == {<<"!", "a">>, <<"!", "A">>, <<"!", "a", "b">>,
          <<"!", "a", " ", "b">>, <<"b">>}
\* line.split(sep=" ", maxsplit=1)[0]
RECURSIVE FirstWord(_)
FirstWord(line) ==
    IF line = <<>> \/ Head(line) = " " THEN <<>>
    ELSE <<Head(line)>> \o FirstWord(Tail(line))
\* triggers as init_command builds them: (command, len(command)) for
\* starts_with, the command string otherwise, or a compiled pattern
Trig(kind, text) == [kind |-> kind, text |-> text]
TriggerLists ==
    {<< Trig("str", <<"!", "A">>) >>,
     << Trig("tuple", <<"!", "a">>) >>,
     << Trig("pattern", <<"b">>) >>,
     << Trig("tuple", <<"!", "a">>), Trig("str", <<"!", "a", "b">>) >>}
\* the result of each call of the handler of a command, in call order
HandlerRets(triggers) ==
    IF Len(triggers) = 1
    THEN {<<r>> : r \in Rets \cup
                     (IF triggers[1].kind = "pattern" THEN {StrRet} ELSE {})}
    ELSE {<<r1, r2>> : r1 \in Rets, r2 \in Rets}
\* the command classes: BaseCommand.__subclasses__() in definition order
CommandClass(n) ==
    UNION {{[name |-> n, order |-> o, level |-> l, triggers |-> t,
             rets |-> r, constructs |-> TRUE] :
                o \in {1, 2}, l \in {0, 2}, r \in HandlerRets(t)} :
           t \in {tt \in TriggerLists : Len(tt) <= MaxTrig}}
\* a class whose constructor raises
BrokenClass(n) ==
    [name |-> n, order |-> 2, level |-> 0,
     triggers |-> << Trig("tuple", <<"!", "a">>) >>,
     rets |-> << Ret("int", 0) >>, constructs |-> FALSE]
RECURSIVE ClassLists(_)
ClassLists(n) ==
    IF n = 0 THEN {<<>>}
    ELSE {Append(cs, c) : cs \in ClassLists(n - 1),
                          c \in CommandClass(n) \cup {BrokenClass(n)}}

\* sorted(..., key=lambda x: x.order, reverse=True): stable, descending
RECURSIVE InsertByOrder(_, _)
InsertByOrder(sorted, c) ==
    IF sorted = <<>> THEN <<c>>
    ELSE IF Head(sorted).order >= c.order
         THEN <<Head(sorted)>> \o InsertByOrder(Tail(sorted), c)
         ELSE <<c>> \o sorted
RECURSIVE SortedByOrder(_)
SortedByOrder(classes) ==
    IF classes = <<>> THEN <<>>
    ELSE InsertByOrder(SortedByOrder(SubSeq(classes, 1, Len(classes) - 1)),
                       classes[Len(classes)])
\* CommandHandler.Setup: self.commands holds the commands that could be
\* constructed, highest order first
Setup(classes) ==
    SelectSeq(SortedByOrder(classes), LAMBDA c : c.constructs)

\* str.startswith(prefix, 0, end)
StartsWith(str, prefix, end) ==
    /\ Len(prefix) <= Min(end, Len(str))
    /\ SubSeq(str, 1, Len(prefix)) = prefix
\* one trigger against the message: tuple, str or pattern (re.search of the
\* trigger's text in the whole line)
IsMatch(trigger, message0, line) ==
    IF trigger.kind = "tuple"
    THEN StartsWith(Lower(message0), trigger.text, Len(trigger.text))
    ELSE IF trigger.kind = "str"
         THEN Lower(message0) = Lower(trigger.text)
         ELSE IsSubstring(trigger.text, line)

\* the locals of HandleCommand: message[0], ret, ret_message, the calls made
\* to each command so far, and what was called, logged and sent; with them
\* the handler's needs_reload flag
Routing(line) ==
    [message0 |-> FirstWord(line), ret |-> NoneRet, ret_message |-> FALSE,
     calls |-> [n \in 1..MaxCmds |-> 0], out |-> <<>>,
     needs_reload |-> FALSE]

\* CommandHandler.Reload(): the module is reloaded and Setup runs again; a
\* failure of either is logged, never raised
Reload(R) == [R EXCEPT !.out = Append(@, Ent("Reload", 0, "Setup", 0, 0))]

\* the body of the trigger loop with an except clause that leaves the loop
TriggerBodyRaiseEnds(R, command, ci, ti, line, level) ==
    LET trigger == command.triggers[ti] IN
    IF ~IsMatch(trigger, R.message0, line) THEN [R |-> R, brk |-> FALSE]
    ELSE IF level < command.level
    THEN [R |-> [R EXCEPT !.ret_message = TRUE,
                          !.out = Append(@, Ent("denied", command.name, ti,
                                                NoneRet, ci))],
          brk |-> FALSE]
    ELSE
        LET k == R.calls[command.name] + 1
            r == command.rets[Min(k, Len(command.rets))]
            called == [R EXCEPT !.calls[command.name] = k,
                                !.out = Append(@, Ent("_func", command.name,
                                                      ti, r, ci))]
            R1 == IF r = RaiseRet
                  THEN [called EXCEPT
                           !.out = @ \o <<Ent("error", 0, "HandlerError", 0, 0),
                                          Ent("SayChat", 0, "Error", 0, 0)>>]
                  ELSE IF r = StrRet
                  THEN [called EXCEPT !.message0 = FirstWord(RewrittenLine),
                                      !.ret = NoneRet]
                  ELSE [called EXCEPT !.ret = r]
        IN [R |-> [R1 EXCEPT !.ret_message = FALSE],
            brk |-> r = RaiseRet \/ (R1.ret.t = "int" /\ R1.ret.v > 0)]

\* the body of the trigger loop as it would be without line 138
TriggerBodyNoReset(R, command, ci, ti, line, level) ==
    LET trigger == command.triggers[ti] IN
    IF ~IsMatch(trigger, R.message0, line) THEN [R |-> R, brk |-> FALSE]
    ELSE IF level < command.level
    THEN [R |-> [R EXCEPT !.ret_message = TRUE,
                          !.out = Append(@, Ent("denied", command.name, ti,
                                                NoneRet, ci))],
          brk |-> FALSE]
    ELSE
        LET k == R.calls[command.name] + 1
            r == command.rets[Min(k, Len(command.rets))]
            called == [R EXCEPT !.calls[command.name] = k,
                                !.out = Append(@, Ent("_func", command.name,
                                                      ti, r, ci))]
            R1 == IF r = RaiseRet
                  THEN [called EXCEPT
                           !.out = @ \o <<Ent("error", 0, "HandlerError", 0, 0),
                                          Ent("SayChat", 0, "Error", 0, 0)>>]
                  ELSE IF r = StrRet
                  THEN [called EXCEPT !.message0 = FirstWord(RewrittenLine),
                                      !.ret = NoneRet]
                  ELSE [called EXCEPT !.ret = r]
        IN [R |-> R1, brk |-> R1.ret.t = "int" /\ R1.ret.v > 0]

\* the body of `for trigger in command.triggers` for one trigger; brk is the
\* inner break
TriggerBody(R, command, ci, ti, line, level) ==
    LET trigger == command.triggers[ti] IN
    IF ~IsMatch(trigger, R.message0, line) THEN [R |-> R, brk |-> FALSE]
    ELSE IF level < command.level
    THEN [R |-> [R EXCEPT !.ret_message = TRUE,
                          !.out = Append(@, Ent("denied", command.name, ti,
                                                NoneRet, ci))],
          brk |-> FALSE]
    ELSE
        LET k == R.calls[command.name] + 1
            r == command.rets[Min(k, Len(command.rets))]
            called == [R EXCEPT !.calls[command.name] = k,
                                !.out = Append(@, Ent("_func", command.name,
                                                      ti, r, ci))]
            R1 == IF r = RaiseRet
                  THEN [called EXCEPT
                           !.out = @ \o <<Ent("error", 0, "HandlerError", 0, 0),
                                          Ent("SayChat", 0, "Error", 0, 0)>>]
                  ELSE IF r = StrRet
                  THEN [called EXCEPT !.message0 = FirstWord(RewrittenLine),
                                      !.ret = NoneRet]
                  ELSE [called EXCEPT !.ret = r]
            R2 == [R1 EXCEPT !.ret_message = FALSE]
        IN [R |-> R2, brk |-> R2.ret.t = "int" /\ R2.ret.v > 0]

RECURSIVE TriggerLoop(_, _, _, _, _, _)
TriggerLoop(R, command, ci, ti, line, level) ==
    IF ti > Len(command.triggers) THEN R
    ELSE LET b == TriggerBody(R, command, ci, ti, line, level) IN
         IF b.brk THEN b.R
         ELSE TriggerLoop(b.R, command, ci, ti + 1, line, level)

RECURSIVE CommandLoop(_, _, _, _, _)
CommandLoop(R, commands, ci, line, level) ==
    IF ci > Len(commands) THEN R
    ELSE LET R1 == TriggerLoop(R, commands[ci], ci, 1, line, level) IN
         IF Claims(R1.ret) THEN R1
         ELSE CommandLoop(R1, commands, ci + 1, line, level)

\* CommandHandler.HandleCommand(line, player)
HandleCommand(commands, line, level, needs_reload) ==
    LET R0 == [Routing(line) EXCEPT !.needs_reload = needs_reload]
        R == CommandLoop(R0, commands, 1, line, level)
        R1 == IF R.ret_message
              THEN [R EXCEPT !.out = Append(@, Ent("SayPrivate", 0,
                                                   "NoAccess", 0, 0))]
              ELSE R
    IN IF R1.needs_reload
       THEN Reload([R1 EXCEPT !.needs_reload = FALSE])
       ELSE R1

\* a chat line arrives and is routed through the commands Setup loaded,
\* with or without a reload pending; routing keeps no other state of its own,
\* so one line per behaviour covers it
ChatLine(classes, line, u, needs_reload) ==
    LET commands == Setup(classes)
        R == HandleCommand(commands, line, Level(u), needs_reload)
    IN /\ op' = [name |-> "HandleCommand", s |-> 0, u |-> u,
                 level |-> Level(u), extra |-> line, ret |-> R.ret,
                 commands |-> commands, pending |-> needs_reload,
                 needs_reload |-> R.needs_reload]
       /\ out' = R.out
       /\ UNCHANGED <<audio_clips, clips, pl, task, env, ev, disabled,
                      disable_votes, storage, clock>>

\* SpecRoute: chat lines routed through every loaded command list
NextRoute ==
    /\ op.name = "Init"
    /\ \E classes \in ClassLists(MaxCmds), line \in Lines,
          needs_reload \in BOOLEAN :
           ChatLine(classes, line, 1, needs_reload)

SpecRoute == Init /\ [][NextRoute]_vars

\* ------------------------------------------------------------ the claims

\* the listener executions of event kind k of session s in the last step
Ran(s, k) == {i \in 1..Len(out) : out[i].k = k /\ out[i].a = s}

\* every coroutine of session s has run to its end
TasksEnded(s) ==
    /\ task[s].stream = "done"
    /\ task[s].read \in {"idle", "done"}
    /\ task[s].write \in {"idle", "done"}
    /\ task[s].wait \in {"idle", "done"}
    /\ task[s].upd \in {"idle", "done"}

\* C1: under every interleaving of the explicit stops, the ticker's
\* self-stop, the zero-data stop, the error-path stops and the stops made
\* from inside a Stop listener, the Stop event of a pipeline is dispatched
\* exactly once: not at all while the pipeline is live, once when it is
\* stopped or all its tasks have ended, and no Stop listener runs twice.
C1_StopFiresExactlyOnce ==
    \A s \in Sessions :
        /\ ev[s].Stop = IF pl[s].playing THEN 0 ELSE 1
        /\ TasksEnded(s) => ev[s].Stop = 1
        /\ \A i, j \in Ran(s, "Stop") : out[i].b = out[j].b => i = j

\* a Stop listener stopped the clip again while the Stop event was dispatched
C1_Witness ==
    \E s \in Sessions :
        /\ clips[s].xb = "stop"
        /\ ev[s].Stop = 1
        /\ \E i \in Ran(s, "Stop") : out[i].b = "adv"
        /\ \E i \in Ran(s, "Stop") : out[i].b = "remove"

\* C2: Stop is idempotent.  In every reachable state, a Stop call on a
\* live pipeline returns true, and a Stop call on a pipeline that is not
\* live (here also: right after that first call) returns false, raises
\* nothing, changes no state and dispatches no event.
C2_StopIdempotent ==
    \A s \in Sessions, f1, f2 \in BOOLEAN :
        LET r1 == Stop(World, s, f1)
            r2 == Stop(r1.w, s, f2)
        IN  /\ pl[s].playing => r1.ret /\ ~r1.exc /\ ~r1.w.pl[s].playing
            /\ ~pl[s].playing => ~r1.ret /\ ~r1.exc /\ r1.w = World
            /\ ~r2.ret /\ ~r2.exc /\ r2.w = r1.w

\* the streaming task called Stop on a pipeline that an explicit stop had
\* already stopped: the call dispatched nothing
C2_Witness ==
    \E s \in Sessions :
        /\ op.name = "FfmpegWaitReturn" /\ op.s = s
        /\ ev[s].Stop = 1
        /\ Ran(s, "Stop") = {}
        /\ \E i \in 1..Len(out) : out[i].b = "ErrorPlayingAudio"

\* the pipeline of session s is stopped, its Stop event has been dispatched
\* and the session has left the live set
Terminated(s) ==
    /\ s \in Sessions
    /\ ~pl[s].playing
    /\ ev[s].Stop = 1
    /\ ~InList(audio_clips, s)

\* the read task of session s returned on a reset of the transport at its
\* first chunk, and the transcoder is blocked on its full output pipe
HungAfterReset(s) ==
    /\ s \in Sessions
    /\ pl[s].playing
    /\ pl[s].seconds = 0
    /\ task[s].read = "done"
    /\ task[s].upd = "idle"
    /\ task[s].stream = "wait"
    /\ env[s].ffmpegs > 0
    /\ env[s].left > 0
    /\ env[s].buf = PipeCap

\* C3: under fair scheduling of its tasks, every pipeline on which Play
\* was accepted eventually is stopped with its Stop event dispatched and its
\* session out of the live set, on every termination path.
C3_EventuallyStopped ==
    \A s \in 1..MaxPipes :
        (s \in Sessions /\ pl[s].playing) ~> Terminated(s)

\* C4: a pipeline owns at most one fetch process, one transcode process
\* and one transport connection, and a pipeline that is not live holds none:
\* no handle in its fields, no open connection, no running process.
C4_OwnsNothingWhenStopped ==
    \A s \in Sessions :
        /\ env[s].conns <= 1 /\ env[s].curls <= 1 /\ env[s].ffmpegs <= 1
        /\ ~pl[s].playing =>
              /\ pl[s].writer = 0
              /\ pl[s].curl_process = 0
              /\ pl[s].ffmpeg_process = 0
              /\ env[s].conns = 0


C6_RemovalIdempotent ==
    \A s \in Sessions :
        Ran(s, "Stop") # {} =>
            /\ \A i \in 1..Len(out) :
                  ~(out[i].k = "error" /\ out[i].a = s /\ out[i].b = "ValueError")
            /\ \E i \in Ran(s, "Stop") : out[i].b = "adv"

\* the private messages `msg` to `player` in the trace tr of a step
Said(tr, player, msg) ==
    {i \in 1..Len(tr) :
        tr[i].k = "SayPrivate" /\ tr[i].a = player /\ tr[i].b = msg}

\* the sessions of `list`
Range(list) == {list[i] : i \in 1..Len(list)}

\* C7: when StopAll returns, audio_clips is empty, the owner of every
\* session that was in it has been sent the force-stop message, one message
\* per session, and every session whose own Stop did not raise is stopped,
\* also when the Stop of a session before it raised.  On an empty list
\* StopAll sends nothing and changes nothing.
C7_ForceStopAllEmpties ==
    [][op'.name = "ForceStopAll" =>
          /\ audio_clips' = <<>>
          /\ op'.ret = Len(audio_clips)
          /\ \A s \in Range(audio_clips) :
                /\ Said(out', clips[s].player, "ForceStopped") # {}
                /\ \/ ~pl'[s].playing
                   \/ \E i \in 1..Len(out') :
                         out'[i] = Ent("error", s, "StopError", 0, 0)
          /\ Cardinality({i \in 1..Len(out') : out'[i].b = "ForceStopped"})
                = Len(audio_clips)
          /\ audio_clips = <<>> =>
                out' = <<>> /\ UNCHANGED <<clips, pl, task, env, ev, disabled>>
    ]_vars

\* the Stop of the first of two sessions raised; the second was stopped and
\* both owners were told
C7_Witness ==
    /\ op.name = "ForceStopAll"
    /\ op.ret = 2
    /\ audio_clips = <<>>
    /\ \E i \in 1..Len(out) : out[i] = Ent("error", 1, "StopError", 0, 0)
    /\ pl[1].playing
    /\ ~pl[2].playing /\ ev[2].Stop = 1
    /\ \A s \in {1, 2} : Said(out, clips[s].player, "ForceStopped") # {}

\* the sessions a stop request of player u with filter `extra` looks at
Matching(extra) ==
    {s \in Range(audio_clips) : ~FilteredOut(extra, Name(clips[s].player))}

\* C8: for a requester who is not the owner, is below the stop level and
\* does not exceed the session's level, AudioManager.Stop adds the requester
\* to the session's voters and stops the session exactly when the voters
\* then are 3 distinct players; with fewer the session keeps playing and the
\* requester is told how many are missing; a voter already counted does not
\* change the set.
C8_VoteQuorum ==
    [][op'.name = "StopRequest" =>
          \A s \in Matching(op'.extra) :
              (/\ op'.u # clips[s].player
               /\ Level(op'.u) < StopLevel
               /\ Level(op'.u) <= clips[s].level)
              => /\ clips'[s].stops = clips[s].stops \cup {op'.u}
                 /\ op'.u \in clips[s].stops => clips'[s].stops = clips[s].stops
                 /\ pl[s].playing
                 /\ ~pl'[s].playing <=> Cardinality(clips'[s].stops) >= 3
                 /\ Cardinality(clips'[s].stops) < 3 =>
                       /\ s \in Range(audio_clips')
                       /\ \E i \in Said(out', op'.u, "NeedMore") :
                             out'[i].c = 3 - Cardinality(clips'[s].stops)
    ]_vars

\* the third distinct voter stopped a session
C8_Witness ==
    /\ op.name = "StopRequest"
    /\ \E s \in Sessions :
          /\ op.u \in clips[s].stops
          /\ Cardinality(clips[s].stops) = 3
          /\ ~pl[s].playing
          /\ Said(out, clips[s].player, "StoppedBy") # {}

\* C9: a requester who owns the session, or whose level is at least the
\* stop level, or whose level exceeds the session's level, stops the session
\* in the same call, whatever the voters so far, and is not added to them.
C9_AuthorityStopsAtOnce ==
    [][op'.name = "StopRequest" =>
          \A s \in Matching(op'.extra) :
              (\/ op'.u = clips[s].player
               \/ Level(op'.u) >= StopLevel
               \/ Level(op'.u) > clips[s].level)
              => /\ pl[s].playing /\ ~pl'[s].playing
                 /\ ev'[s].Stop = 1
                 /\ s \notin Range(audio_clips')
                 /\ clips'[s].stops = clips[s].stops
                 /\ op'.ret >= 1
    ]_vars

\* a player at the stop level stopped the session of a player above it,
\* which had fewer than 3 voters
C9_Witness ==
    /\ op.name = "StopRequest"
    /\ Level(op.u) = StopLevel
    /\ \E s \in Sessions :
          /\ clips[s].level > Level(op.u)
          /\ clips[s].stops # {} /\ Cardinality(clips[s].stops) < 3
          /\ ~pl[s].playing
          /\ \E i \in Said(out, clips[s].player, "StoppedBy") : out[i].c = op.u

\* the limit messages of CheckLimits
LimitMessages == {"UsedUpUses", "UsedUpTime", "Cooldown"}

\* C10: AudioManager.AudioClip checks the disable flag, then anti-spam,
\* then the limits, and stops at the first that fails; a rejected request
\* creates no session, no pipeline and no listener and leaves audio_clips
\* as it was; the request is rejected as disabled exactly when the flag is
\* set and the requester's level is below it.
C10_AdmissionOrder ==
    [][op'.name = "PlayCommand" =>
          LET u == op'.u
              asked == Ent("CheckAntiSpam", u, "", 0, 0)
              refused == out' = <<Ent("SayPrivate", u, "Disabled", 0, 0)>>
          IN  /\ refused <=> (disabled # 0 /\ Level(u) < disabled)
              /\ refused => op'.ret = 0
              /\ ~refused => out'[1] = asked
              /\ op'.ret = 0 =>
                    /\ UNCHANGED <<audio_clips, clips, pl, task, env, ev,
                                    storage>>
                    /\ \/ refused
                       \/ out' = <<asked>>
                       \/ /\ Len(out') = 2
                          /\ out'[2].k = "SayPrivate" /\ out'[2].a = u
                          /\ out'[2].b \in LimitMessages
              /\ op'.ret # 0 =>
                    /\ out' = <<asked>>
                    /\ Len(clips') = Len(clips) + 1
                    /\ audio_clips' = Append(audio_clips, Len(clips'))
    ]_vars

\* a player whose level equals the flag was admitted while the flag was set
C10_Witness ==
    /\ op.name = "PlayCommand"
    /\ op.ret # 0
    /\ disabled # 0
    /\ Level(op.u) = disabled


\* the sessions created for player u
Granted(u) == {s \in Sessions : clips[s].player = u}

\* C11: a player below the immunity level whose tier has a grant limit N
\* and whose ledger entry started fresh is granted at most N requests
C11_AtMostNGrants ==
    \A u \in Users :
        (/\ Level(u) < ImmunityLevel
         /\ HasTier(Level(u))
         /\ Tier(Level(u)).Uses >= 0)
        => Cardinality(Granted(u)) <= Tier(Level(u)).Uses

\* the part of C11 that holds: once N Play events have been counted, the
\* next request is denied with the message and creates no session
C11_DeniedOnceCounted ==
    [][(/\ op'.name = "PlayCommand"
        /\ storage[op'.u].Uses >= Tier(Level(op'.u)).Uses)
       => /\ op'.ret = 0
          /\ Said(out', op'.u, "UsedUpUses") # {}
          /\ UNCHANGED <<audio_clips, clips, pl, storage>>]_vars

\* C12: a request of a player whose level is at or above the immunity
\* level is never denied by the usage-limit check, whatever the player's
\* ledger entry and whatever tier is configured for the level
C12_ImmuneNeverLimited ==
    [][(op'.name = "PlayCommand" /\ Level(op'.u) >= ImmunityLevel)
       => \A msg \in LimitMessages : Said(out', op'.u, msg) = {}]_vars

\* no limit other than the cooldown is reached for player u
NoOtherLimit(u) ==
    /\ ~DisabledFor(disabled, Level(u))
    /\ HasTier(Level(u))
    /\ ~(Tier(Level(u)).Uses >= 0 /\ storage[u].Uses >= Tier(Level(u)).Uses)
    /\ storage[u].TimeUsed < Tier(Level(u)).TotalTime

\* the cooldown of player u: the recorded length of the last use times the
\* delay factor of the tier
UseDelay(u) == storage[u].LastUseLength * Tier(Level(u)).DelayFactor

\* C13: with no other limit reached, a request made less than the cooldown
\* after the recorded last use is denied with the cooldown message and
\* creates nothing, and a request made once the cooldown has elapsed is
\* granted
C13_Cooldown ==
    [][(op'.name = "PlayCommand" /\ NoOtherLimit(op'.u)) =>
          IF clock - storage[op'.u].LastUse < UseDelay(op'.u)
          THEN /\ op'.ret = 0
               /\ Said(out', op'.u, "Cooldown") # {}
               /\ UNCHANGED <<audio_clips, clips, pl, storage>>
          ELSE /\ op'.ret # 0
               /\ \A msg \in LimitMessages : Said(out', op'.u, msg) = {}
    ]_vars

\* a request made exactly when the cooldown of a last use has elapsed was
\* granted
C13_Witness ==
    /\ op.name = "PlayCommand"
    /\ op.ret # 0
    /\ UseDelay(op.u) > 0
    /\ clock - storage[op.u].LastUse = UseDelay(op.u)

\* the sessions of `list` that are not owned by player u, in order
NotOwnedBy(list, u) == SelectSeq(list, LAMBDA s : clips[s].player # u)

\* C14: when OnDisconnect(player) returns, no session of that player is
\* left in audio_clips, the pipeline of every session of the player that
\* was live has been stopped and has dispatched its Stop event, and the
\* sessions of the other players are neither stopped nor removed
C14_DisconnectStopsOwn ==
    [][op'.name = "OnDisconnect" =>
          /\ audio_clips' = NotOwnedBy(audio_clips, op'.u)
          /\ \A s \in Range(audio_clips) :
                IF clips[s].player = op'.u
                THEN ~pl'[s].playing /\ ev'[s].Stop = 1
                ELSE pl'[s] = pl[s] /\ ev'[s] = ev[s] /\ task'[s] = task[s]
    ]_vars

\* a player with a live session has disconnected while a session of
\* another player was live
C14_Witness ==
    /\ op.name = "OnDisconnect"
    /\ \E s \in Sessions : clips[s].player = op.u /\ Ran(s, "Stop") # {}
    /\ audio_clips # <<>>
    /\ \A s \in Range(audio_clips) : pl[s].playing

\* C15: in AudioManager.Stop and AudioManager.OnDisconnect an error raised
\* by the Stop of one session does not escape the operation (an escaped
\* error ends the scan, the sessions after it are not looked at)
C15_StopErrorsContained == op.name \notin {"StopRequest!", "OnDisconnect!"}

\* what C15 fails on: a disconnect whose scan was ended by the error of
\* the first session left the second session of the leaving player live
\* and playing as well
C15_ScanAborted ==
    /\ op.name = "OnDisconnect!"
    /\ Cardinality({s \in Range(audio_clips) :
          clips[s].player = op.u /\ pl[s].playing /\ ev[s].Stop = 0}) = 2

\* C16: the Play event of a pipeline is dispatched at most once, in the
\* step of _read_stream that has drained a non-empty chunk, and no Update
\* listener of the pipeline runs before it or in the same step; a pipeline
\* that has read no data has not dispatched Play
C16_PlayOnceAfterData ==
    [][\A s \in Sessions :
          /\ ev'[s].Play <= 1
          /\ (Ran(s, "Play")' # {}) <=> (ev'[s].Play # ev[s].Play)
          /\ ev'[s].Play # ev[s].Play =>
                /\ op'.name = "DrainOk" /\ op'.s = s
                /\ task[s].data > 0
                /\ pl'[s].seconds >= ChunkSeconds(task[s].data)
                /\ Ran(s, "Update")' = {}
          /\ Ran(s, "Update")' # {} => ev[s].Play = 1
          /\ pl'[s].seconds = 0 => ev'[s].Play = 0
    ]_vars

\* a second chunk has been drained while the pipeline plays, and Play was
\* not dispatched again
C16_Witness ==
    /\ op.name = "DrainOk"
    /\ pl[op.s].playing
    /\ pl[op.s].seconds > ChunkSeconds(2)
    /\ ev[op.s].Play = 1
    /\ Ran(op.s, "Play") = {}

\* the Play and Update listener executions of session s in the trace tr
\* that follow the execution of a Stop listener of s
AfterStop(tr, s) ==
    {j \in 1..Len(tr) :
        /\ tr[j].k \in {"Play", "Update"} /\ tr[j].a = s
        /\ \E i \in 1..(j - 1) : tr[i].k = "Stop" /\ tr[i].a = s}

\* C17: once the Stop event of a pipeline has been dispatched, no Play or
\* Update listener of the pipeline is executed: not in a later step, and
\* not later in the step that dispatched Stop
C17_NoListenerAfterStop ==
    [][\A s \in Sessions :
          /\ ev[s].Stop >= 1 => Ran(s, "Play")' = {} /\ Ran(s, "Update")' = {}
          /\ AfterStop(out', s) = {}
    ]_vars

\* the part of C17 that holds: a chunk read or a ticker tick that resumes
\* in a step after the one that dispatched Stop runs no listener
C17_NoListenerInLaterSteps ==
    [][\A s \in Sessions :
          ev[s].Stop >= 1 => Ran(s, "Play")' = {} /\ Ran(s, "Update")' = {}
    ]_vars

\* a drain that was suspended across the Stop has resumed
C17_ResumedAfterStop ==
    /\ op.name = "DrainOk"
    /\ ev[op.s].Stop = 1
    /\ ev[op.s].Play = 0

\* C18: a listener can be registered before or after Play is called; the
\* registration of a listener after the Stop event of the pipeline has
\* fired does not fail with an error, and the listener is never executed
C18_LateRegistration ==
    [][\A s \in Sessions :
          /\ (op'.name \in {"AddCallback", "AddCallback!"} /\ op'.s = s
                  /\ ev[s].Stop >= 1)
             => op'.name = "AddCallback"
          /\ ev[s].Stop >= 1 =>
                {i \in 1..Len(out') : out'[i].a = s /\ out'[i].b = "late"} = {}
    ]_vars

\* the part of C18 that holds: before the Stop event a registration for a
\* valid kind succeeds whether or not the pipeline has started to play
C18_RegistrationBeforeStop ==
    [][(op'.name \in {"AddCallback", "AddCallback!"} /\ ev[op'.s].Stop = 0)
       => /\ op'.name = "AddCallback"
          /\ (op'.ret = 1) <=> (op'.extra[1] \in VALID_CALLBACKS)
          /\ op'.ret = 1 =>
                pl'[op'.s].callbacks =
                    Append(pl[op'.s].callbacks, <<op'.extra[1], "late">>)
    ]_vars

\* a registration attempted after the Stop event has raised
C18_RaisedAfterStop ==
    /\ op.name = "AddCallback!"
    /\ ev[op.s].Stop = 1
    /\ ~pl[op.s].playing

\* the listeners registered in `list` for event kind k, in order
Registered(list, k) ==
    LET sel == SelectSeq(list, LAMBDA c : c[1] = k)
    IN  [i \in 1..Len(sel) |-> sel[i][2]]

\* the listeners of kind k of session s executed in the trace tr, in order
Executed(tr, s, k) ==
    LET sel == SelectSeq(tr, LAMBDA e : e.k = k /\ e.a = s)
    IN  [i \in 1..Len(sel) |-> sel[i].b]

\* the listeners of session s that raised in the trace tr
Raised(tr, s) ==
    {i \in 1..Len(tr) :
        tr[i].k = "error" /\ tr[i].a = s /\ tr[i].b = "ListenerError"}

\* the steps in which the coroutine itself fails and runs its handler
ErrorSteps == {"SpawnFailed", "DrainError", "WriteError", "WaitError"}

\* C19: a dispatch runs the listeners registered for the event kind, all of
\* them and only them, in the order of registration, in the step that
\* dispatches; a listener that raises does not end the dispatch and its
\* exception reaches neither the coroutine's handler nor the command that
\* triggered the event
C19_DispatchOrderIsolation ==
    [][\A s \in Sessions :
          /\ \A k \in VALID_CALLBACKS :
                Executed(out', s, k) # <<>> =>
                    Executed(out', s, k) = Registered(pl[s].callbacks, k)
          /\ (Raised(out', s) # {} /\ op'.name \notin ErrorSteps) =>
                /\ \A i \in 1..Len(out') :
                      ~(/\ out'[i].k = "SayChat"
                        /\ out'[i].b \in {"Error", "ErrorPlayingAudio"})
                /\ op'.name \notin {"StopRequest!", "OnDisconnect!"}
    ]_vars

\* the advertiser's Stop listener has raised and the Stop listener
\* registered after it has run
C19_Witness ==
    \E s \in Sessions :
        /\ Raised(out, s) # {}
        /\ \E i \in Ran(s, "Stop"), j \in Ran(s, "Stop") :
              i < j /\ out[i].b = "adv" /\ out[j].b = "unlink"

\* C20: a tick of _updater on a playing pipeline whose elapsed time has
\* reached the seconds of PCM observed so far stops the pipeline in that
\* tick with Stop(False), an orderly close, and dispatches Stop; a tick
\* whose elapsed time is below the observed seconds leaves the pipeline
\* playing and sleeps (listeners that stop the clip themselves aside)
C20_UnderrunSelfStop ==
    [][\A s \in Sessions :
          (/\ op'.name = "UpdaterTick" /\ op'.s = s
           /\ pl[s].playing
           /\ clips[s].xb # "stop")
          => IF task'[s].elapsed >= pl[s].seconds
             THEN /\ ~pl'[s].playing
                  /\ ev'[s].Stop = ev[s].Stop + 1
                  /\ env'[s].closed = "orderly"
                  /\ task'[s].upd = "done"
                  /\ audio_clips' = ListRemove(audio_clips, s)
             ELSE /\ pl'[s].playing
                  /\ ev'[s].Stop = ev[s].Stop
                  /\ task'[s].upd = "sleep"
                  /\ audio_clips' = audio_clips
    ]_vars

\* the ticker has stopped a pipeline whose reader had not reached the end
\* of the stream, with an orderly close
C20_Witness ==
    /\ op.name = "UpdaterTick"
    /\ ~pl[op.s].playing
    /\ ~pl[op.s].stopped_playing
    /\ pl[op.s].seconds > 0
    /\ env[op.s].closed = "orderly"
    /\ ev[op.s].Stop = 1


\* C21: when the wait for the transcode process returns and the pipeline
\* has counted no PCM (self.seconds is 0), the pipeline is stopped in that
\* step: its Stop event has fired, its session is not in audio_clips, and
\* Play has not been dispatched; and Play is never dispatched after Stop
C21_ZeroDataStops ==
    [][\A s \in Sessions :
          /\ (op'.name = "FfmpegWaitReturn" /\ op'.s = s /\ pl[s].seconds = 0)
             => /\ ~pl'[s].playing
                /\ ev'[s].Stop = 1
                /\ ev'[s].Play = 0
                /\ ~InList(audio_clips', s)
                /\ pl[s].playing => Ran(s, "Stop")' # {}
          /\ ev[s].Stop >= 1 => ev'[s].Play = ev[s].Play
    ]_vars

\* the transcode process of a playing pipeline has exited without output
\* and the step has dispatched Stop
C21_Witness ==
    /\ op.name = "FfmpegWaitReturn"
    /\ pl[op.s].seconds = 0
    /\ Ran(op.s, "Stop") # {}
    /\ ev[op.s].Play = 0


\* the step has force-stopped the playing pipeline s and broadcast an error
StoppedWithError(s) ==
    /\ ~pl'[s].playing
    /\ ev'[s].Stop = ev[s].Stop + 1
    /\ pl[s].writer # 0 => env'[s].closed = "abort"
    /\ pl'[s].writer = 0 /\ pl'[s].ffmpeg_process = 0
    /\ pl'[s].curl_process = 0
    /\ \E i \in 1..Len(out') : out'[i].k = "SayChat" /\ out'[i].b = "Error"

\* C22: an I/O error in a task of a playing pipeline, the reset or broken
\* pipe of the transport write included, force-stops the pipeline
\* (resources released, Stop dispatched) and broadcasts an error message
C22_StreamFaultStops ==
    [][\A s \in Sessions :
          (/\ op'.name \in {"DrainReset", "DrainError", "WriteError",
                             "WaitError"}
           /\ op'.s = s
           /\ pl[s].playing)
          => StoppedWithError(s)
    ]_vars

\* the part of C22 that holds: the errors other than the reset and the
\* broken pipe of the transport write
C22_OtherFaultsStop ==
    [][\A s \in Sessions :
          (/\ op'.name \in {"DrainError", "WriteError", "WaitError"}
           /\ op'.s = s
           /\ pl[s].playing)
          => StoppedWithError(s)
    ]_vars

\* what C22 fails on: the transport write of a playing pipeline was reset
\* and the pipeline still plays, with nothing broadcast
C22_ResetIgnored ==
    /\ op.name = "DrainReset"
    /\ pl[op.s].playing
    /\ ev[op.s].Stop = 0
    /\ task[op.s].read = "done"
    /\ out = <<>>


\* the sessions of audio_clips whose pipeline the step has stopped
StoppedNow == {s \in Range(audio_clips) : pl[s].playing /\ ~pl'[s].playing}

\* C23: the replies of AudioManager.Stop to the requester: with no session
\* only "no audio playing", and nothing changes; otherwise the number of
\* sessions stopped in the call when it is not zero, the usage hint when
\* it is zero and no filter was given, and neither when it is zero and a
\* filter was given
C23_StopReplies ==
    [][op'.name = "StopRequest" =>
          LET u == op'.u
              n == Cardinality(StoppedNow)
          IN  IF audio_clips = <<>>
              THEN /\ out' = <<Ent("SayPrivate", u, "NoAudio", 0, 0)>>
                   /\ UNCHANGED <<audio_clips, clips, pl, task, env, ev,
                                   storage>>
              ELSE /\ Said(out', u, "NoAudio") = {}
                   /\ op'.ret = n
                   /\ n > 0 =>
                         /\ Cardinality(Said(out', u, "StoppedCount")) = 1
                         /\ \A i \in Said(out', u, "StoppedCount") :
                               out'[i].c = n /\ i = Len(out')
                         /\ Said(out', u, "NoMatchHint") = {}
                   /\ n = 0 =>
                         /\ Said(out', u, "StoppedCount") = {}
                         /\ IF op'.extra = <<>>
                            THEN /\ Cardinality(Said(out', u, "NoMatchHint")) = 1
                                 /\ out'[Len(out')].b = "NoMatchHint"
                            ELSE Said(out', u, "NoMatchHint") = {}
    ]_vars

\* a stop request with a filter that no live session matches was answered
\* with nothing
C23_Witness ==
    /\ op.name = "StopRequest"
    /\ op.extra # <<>>
    /\ audio_clips # <<>>
    /\ op.ret = 0
    /\ out = <<>>


Calls == {i \in 1..Len(out) : out[i].k = "_func"}
\* no handler call of the routed line rewrote the message or raised
PlainCalls == \A i \in Calls : out[i].c \in IntRets \cup {NoneRet}

\* C25: a chat line is routed through the commands in descending priority
\* order, a handler is called only for a trigger that matches the line
\* (exact, prefix of the trigger's length, or pattern), and once a handler
\* returned a value >= 0 no command of lower priority is called for the line.
C25_ClaimEndsRouting ==
    op.name = "HandleCommand" =>
        /\ \A i, j \in 1..Len(op.commands) :
               i < j => op.commands[i].order >= op.commands[j].order
        /\ \A i, j \in Calls : i < j => out[i].d <= out[j].d
        /\ \A i \in Calls :
               \/ IsMatch(op.commands[out[i].d].triggers[out[i].b],
                          FirstWord(op.extra), op.extra)
               \/ \E j \in Calls : j < i /\ out[j].c = StrRet
        /\ \A i, j \in Calls :
               (i < j /\ Claims(out[i].c)) => out[j].d <= out[i].d

\* C25, the part that holds: commands are loaded in descending priority
\* order, handlers are called in that order and only for matching triggers,
\* no command is called after a command of higher priority whose last call
\* returned a value >= 0, and when every call returned a negative value or
\* nothing, every permitted command with a matching trigger was called.
C25_PriorityOrder ==
    op.name = "HandleCommand" =>
        /\ \A i, j \in 1..Len(op.commands) :
               i < j => op.commands[i].order >= op.commands[j].order
        /\ \A i, j \in Calls : i < j => out[i].d <= out[j].d
        /\ \A i \in Calls :
               \/ IsMatch(op.commands[out[i].d].triggers[out[i].b],
                          FirstWord(op.extra), op.extra)
               \/ \E j \in Calls : j < i /\ out[j].c = StrRet
        /\ \A i, j \in Calls :
               (/\ i < j
                /\ Claims(out[i].c)
                /\ \A m \in Calls : m > i => out[m].d # out[i].d)
               => out[j].d <= out[i].d
        /\ (PlainCalls /\ \A i \in Calls : ~Claims(out[i].c)) =>
               \A ci \in 1..Len(op.commands) :
                   (/\ op.level >= op.commands[ci].level
                    /\ \E ti \in 1..Len(op.commands[ci].triggers) :
                           IsMatch(op.commands[ci].triggers[ti],
                                   FirstWord(op.extra), op.extra))
                   => \E i \in Calls : out[i].d = ci

\* a command claimed the line with 0, a second trigger of it matched and its
\* handler declined, and a command of lower priority was called afterwards
C25_CalledAfterClaim ==
    /\ op.name = "HandleCommand"
    /\ \E i, j, m \in Calls :
           /\ i < j /\ j < m
           /\ out[i].d = out[j].d /\ out[j].d < out[m].d
           /\ out[i].c = Ret("int", 0)
           /\ ~Claims(out[j].c)


\* C26: the Update events of a pipeline form a chain. An Update listener
\* runs only in a pass of the ticker of a pipeline that is live when the pass
\* starts; its previous is 0 in the first pass and the current of the
\* preceding pass afterwards (the ticker's last_seconds_elapsed, which only a
\* pass that goes on changes, to the current it delivered); previous <=
\* current, and current is at most the seconds of PCM observed so far.
C26_UpdateChain ==
    [][\A s \in Sessions :
          /\ \A i \in 1..Len(out') :
                (out'[i].k = "Update" /\ out'[i].a = s) =>
                    /\ op'.name = "UpdaterTick" /\ op'.s = s
                    /\ pl[s].playing
                    /\ out'[i].c = (IF task[s].upd = "start" THEN 0
                                    ELSE task[s].last)
                    /\ out'[i].c <= out'[i].d
                    /\ out'[i].d <= pl[s].seconds
                    /\ out'[i].d = Min(task'[s].elapsed, pl[s].seconds)
                    /\ task'[s].upd = "sleep" => task'[s].last = out'[i].d
          /\ task'[s].last # task[s].last =>
                /\ op'.name = "UpdaterTick" /\ op'.s = s
                /\ task'[s].upd = "sleep"
                /\ task'[s].last = Min(task'[s].elapsed, pl[s].seconds)
      ]_vars

\* a later Update of the chain was delivered: its previous is the current of
\* a preceding one, and time has advanced
C26_Witness ==
    \E s \in Sessions : \E i \in Ran(s, "Update") :
        /\ op.name = "UpdaterTick"
        /\ out[i].c > 0
        /\ out[i].d > out[i].c


\* the sessions whose pipeline session s' "chain" listener stopped in the
\* last step: their Stop dispatch follows that listener's call
ChainStopped(trace) ==
    {t \in Sessions :
        \E i \in 1..(Len(trace) - 1) :
            /\ trace[i].k = "Stop" /\ trace[i].b = "chain"
            /\ (trace[i].a % Len(clips)) + 1 = t
            /\ trace[i + 1].k = "Stop" /\ trace[i + 1].a = t
            /\ trace[i + 1].b = "remove"}

\* C27: the scans of StopRequest, ForceStopAll and OnDisconnect work on the
\* sessions listed when the scan starts, although the Stop events remove
\* sessions during the scan. StopRequest: every listed session the filter
\* lets through that the requester may stop is stopped after the scan, every
\* other one gets the requester's vote and one reply each, and the count is
\* the number of sessions the scan itself stopped, without those a Stop
\* listener had already stopped when they were reached. ForceStopAll: every
\* listed session is stopped and its owner told once per session.
\* OnDisconnect: every listed session of the leaving player is stopped.
C27_SnapshotScan ==
    [][LET listed == Range(audio_clips)
           cand == {s \in listed :
                       ~FilteredOut(op'.extra, Name(clips[s].player))}
           pending == {s \in cand :
                          /\ ~CanStopNow(op'.u, op'.level, clips[s])
                          /\ VotesNeeded(clips[s].stops \cup {op'.u}) > 0}
       IN  /\ op'.name = "StopRequest" =>
                /\ \A s \in cand \ pending : ~pl'[s].playing
                /\ \A s \in pending :
                       clips'[s].stops = clips[s].stops \cup {op'.u}
                /\ Cardinality(Said(out', op'.u, "NeedMore")) =
                       Cardinality(pending)
                /\ op'.ret = Cardinality((StoppedNow \cap cand)
                                            \ (pending \cup ChainStopped(out')))
           /\ op'.name = "ForceStopAll" =>
                /\ \A s \in listed : ~pl'[s].playing
                /\ audio_clips' = <<>>
                /\ \A v \in Users :
                       Cardinality(Said(out', v, "ForceStopped")) =
                           Cardinality({s \in listed : clips[s].player = v})
           /\ op'.name = "OnDisconnect" =>
                \A s \in listed : clips[s].player = op'.u => ~pl'[s].playing
      ]_vars

\* a stop request by an authority went over two listed sessions: the Stop
\* listener of the first stopped the second, which was then reached in the
\* snapshot and not counted
C27_Witness ==
    /\ op.name = "StopRequest"
    /\ op.u = 5
    /\ op.ret = 1
    /\ \E t \in ChainStopped(out) :
           \E i \in Ran(t, "Stop") : \E j \in 1..(i - 1) :
               out[j].k = "Stop" /\ out[j].a < t /\ out[j].b = "remove"

\* three sessions were listed and none had a listener that stops another:
\* the forced stop reached all three although each Stop shrank the list
C27_NoneSkipped ==
    /\ op.name = "ForceStopAll"
    /\ op.ret = MaxClips + 1
    /\ \A s \in Sessions : ~pl[s].playing /\ Ran(s, "Stop") # {}
    /\ \A i \in 1..Len(out) : out[i].b # "chain"


\* C28: the transport of a pipeline is closed at most once, in the step that
\* stops the pipeline while it holds a connection, and the kind of close
\* follows the cause: orderly when the ticker stops the pipeline itself (end
\* of stream or underrun), abortive when an Update listener stops it with
\* the default argument inside the ticker's pass, and abortive in every
\* other step (a stop operation of the registry, zero data, the error
\* handler of a pipeline task).
C28_CloseKind ==
    [][\A s \in Sessions :
          /\ env[s].closed # "none" => env'[s].closed = env[s].closed
          /\ env'[s].closed # env[s].closed =>
                /\ pl[s].playing /\ ~pl'[s].playing
                /\ pl[s].writer # 0 /\ pl'[s].writer = 0
                /\ env'[s].closed =
                      IF op'.name = "UpdaterTick"
                            /\ clips[s].xb \notin {"stop", "flood"}
                      THEN "orderly" ELSE "abort"
          /\ (pl[s].playing /\ ~pl'[s].playing /\ pl[s].writer # 0) =>
                env'[s].closed # "none"
      ]_vars

\* the ticker stopped a pipeline at the end of its stream: orderly close
C28_Witness ==
    \E s \in Sessions :
        /\ op.name = "UpdaterTick" /\ op.s = s
        /\ pl[s].stopped_playing
        /\ env[s].closed = "orderly"

\* the transcoder of a connected pipeline exited without data: abortive close
C28_ZeroDataAborts ==
    \E s \in Sessions :
        /\ op.name = "FfmpegWaitReturn" /\ op.s = s
        /\ pl[s].seconds = 0
        /\ env[s].closed = "abort"

\* the ticker found an underrun before the end of the stream: orderly close
C28_UnderrunOrderly ==
    \E s \in Sessions :
        /\ op.name = "UpdaterTick" /\ op.s = s
        /\ ~pl[s].stopped_playing
        /\ env[s].closed = "orderly"


\* C29: Stopped is terminal. Once the Stop of a pipeline has returned true
\* (it deleted the listener list), the pipeline never becomes live again and
\* no connection is opened and no process spawned for it, whatever is called
\* on it afterwards.
C29_StoppedIsTerminal ==
    [][\A s \in Sessions :
          ~pl[s].has_callbacks =>
              /\ ~pl'[s].playing
              /\ env'[s].conns <= env[s].conns
              /\ env'[s].curls <= env[s].curls
              /\ env'[s].ffmpegs <= env[s].ffmpegs
      ]_vars

\* C29, the part that holds: no step other than a new PlayURI makes a
\* stopped pipeline live again.
C29_LiveOnlyByPlay ==
    [][\A s \in Sessions :
          (~pl[s].has_callbacks /\ ~pl[s].playing /\ pl'[s].playing) =>
              (op'.name = "PlayURI" /\ op'.s = s)
      ]_vars

\* a pipeline whose Stop had returned true was played again and has opened a
\* new connection
C29_LiveAgain ==
    \E s \in Sessions :
        /\ ~pl[s].has_callbacks
        /\ ev[s].Stop = 1
        /\ pl[s].playing
        /\ pl[s].writer # 0
        /\ env[s].conns > 0


\* the voter set of session s, empty for a session that does not exist yet
Voters(s) == IF s \in Sessions THEN clips[s].stops ELSE {}

\* C30: the voter set of a session only grows; an id enters it only in a
\* stop request of that player, for a listed session the filter lets
\* through, when the player is not the owner, is below the stop-authority
\* level and does not exceed the session's level; the owner's id is never in
\* it.
C30_VoterSet ==
    [][\A s \in 1..Len(clips') :
          /\ Voters(s) \subseteq clips'[s].stops
          /\ clips'[s].player \notin clips'[s].stops
          /\ \A v \in clips'[s].stops \ Voters(s) :
                /\ op'.name = "StopRequest"
                /\ v = op'.u
                /\ s \in Range(audio_clips)
                /\ ~FilteredOut(op'.extra, Name(clips[s].player))
                /\ v # clips[s].player
                /\ Level(v) < StopLevel
                /\ Level(v) <= clips[s].level
      ]_vars

\* a session holds the votes of two players and is still playing: the last
\* stop request was one of theirs
C30_Witness ==
    \E s \in Sessions :
        /\ Cardinality(clips[s].stops) = 2
        /\ pl[s].playing
        /\ op.name = "StopRequest"
        /\ op.u \in clips[s].stops


\* the limit of the tier of player u that the ledger entry st reaches first
\* at loop time now, in the order grant count, seconds budget, cooldown
FirstLimit(u, st, now) ==
    IF ~HasTier(Level(u)) THEN "none"
    ELSE IF Tier(Level(u)).Uses >= 0 /\ st.Uses >= Tier(Level(u)).Uses
    THEN "UsedUpUses"
    ELSE IF st.TimeUsed >= Tier(Level(u)).TotalTime THEN "UsedUpTime"
    ELSE IF now - st.LastUse < st.LastUseLength * Tier(Level(u)).DelayFactor
    THEN "Cooldown"
    ELSE "none"

\* C31: the usage-limit check tests the grant count, then the seconds
\* budget, then the cooldown, and the first limit reached decides the one
\* denial message; a negative grant count never denies, a level without a
\* tier is never denied, and the check leaves the ledger as it is.
C31_LimitOrder ==
    [][op'.name = "PlayCommand" =>
          LET u == op'.u
              first == FirstLimit(u, storage[u], clock)
          IN  /\ storage' = storage
              /\ (op'.ret = 0) = (first # "none")
              /\ \A msg \in LimitMessages :
                    Cardinality(Said(out', u, msg)) =
                        IF msg = first THEN 1 ELSE 0
              /\ Tier(Level(u)).Uses < 0 =>
                    Said(out', u, "UsedUpUses") = {}
              /\ ~HasTier(Level(u)) => op'.ret # 0
    ]_vars

\* a request was denied for the grant count while the seconds budget was
\* used up and the cooldown was running as well
C31_Witness ==
    /\ op.name = "PlayCommand"
    /\ op.ret = 0
    /\ Said(out, op.u, "UsedUpUses") # {}
    /\ storage[op.u].TimeUsed >= Tier(Level(op.u)).TotalTime
    /\ clock - storage[op.u].LastUse < UseDelay(op.u)

\* a player of a tier with unlimited grants was denied for the seconds
\* budget with a grant count that would deny in the limited tier
C31_UnlimitedStillBudgeted ==
    /\ op.name = "PlayCommand"
    /\ op.ret = 0
    /\ Tier(Level(op.u)).Uses < 0
    /\ storage[op.u].Uses >= 2
    /\ Said(out, op.u, "UsedUpTime") # {}


\* C32: an admitted session gets the registry's removal listener and the
\* three advertiser listeners whatever the requester's level, and the three
\* usage-accounting listeners exactly when that level is below the immunity
\* level; the ledger entry of a player changes only in a step in which a
\* usage-accounting listener of a session of that player runs, so no event
\* of a session of a player at or above the immunity level changes a ledger.
C32_AccountingBelowImmunity ==
    [][/\ (op'.name = "PlayCommand" /\ op'.ret # 0) =>
             LET list == pl'[op'.s].callbacks
                 spam == IF op'.level < ImmunityLevel THEN 1 ELSE 0
             IN  /\ Count(list, <<"Stop", "remove">>) = 1
                 /\ \A k \in VALID_CALLBACKS :
                       /\ Count(list, <<k, "adv">>) = 1
                       /\ Count(list, <<k, "spam">>) = spam
                 /\ Len(list) = 4 + 3 * spam
       /\ \A u \in Users :
             storage'[u] # storage[u] =>
                 /\ Level(u) < ImmunityLevel
                 /\ \E i \in 1..Len(out') :
                       /\ out'[i].b = "spam"
                       /\ clips[out'[i].a].player = u
       /\ \A s \in Sessions :
             Level(clips[s].player) >= ImmunityLevel =>
                 \A i \in 1..Len(out') : out'[i].a = s => out'[i].b # "spam"
    ]_vars

\* the session of a player above the immunity level has played to its end:
\* its Play, Update and Stop events were dispatched and the player's ledger
\* entry is as it was
C32_Witness ==
    \E s \in Sessions :
        /\ Level(clips[s].player) >= ImmunityLevel
        /\ op.name = "UpdaterTick" /\ op.s = s
        /\ Ran(s, "Update") # {} /\ Ran(s, "Stop") # {}
        /\ ev[s].Play = 1
        /\ pl[s].seconds > 0
        /\ storage[clips[s].player] = FreshLedger

\* the session of a player below the immunity level has played to its end
\* and the player's ledger entry has a use, time used and a last use length
C32_LedgerUpdatedBelow ==
    \E s \in Sessions :
        /\ Level(clips[s].player) < ImmunityLevel
        /\ ~pl[s].playing
        /\ storage[clips[s].player].Uses = 1
        /\ storage[clips[s].player].TimeUsed > 0
        /\ storage[clips[s].player].LastUseLength > 0


\* the transcoder of pipeline s has written PCM: a chunk is in its output
\* pipe, or has been read and awaits the drain, or has been counted
Produced(s) == env[s].buf > 0 \/ task[s].data > 0 \/ pl[s].seconds > 0

\* C33: when the wait for the transcoder's exit returns for a live pipeline
\* whose transcoder has written at least one chunk, the step does not stop
\* the pipeline, wherever the reading task is.
C33_ZeroStopOnlyWithoutData ==
    [][\A s \in Sessions :
          (/\ op'.name = "FfmpegWaitReturn" /\ op'.s = s
           /\ pl[s].playing
           /\ Produced(s))
          => pl'[s].playing
    ]_vars

\* C33, the part that holds: the step does not stop a pipeline whose reading
\* task has counted a chunk.
C33_CountedDataKeeps ==
    [][\A s \in Sessions :
          (/\ op'.name = "FfmpegWaitReturn" /\ op'.s = s
           /\ pl[s].playing
           /\ pl[s].seconds > 0)
          => (pl'[s].playing /\ Ran(s, "Stop")' = {})
    ]_vars

\* the zero-data path has stopped a pipeline whose transcoder had written a
\* chunk that the reading task had not counted yet: no Play was dispatched
C33_DataLost ==
    \E s \in Sessions :
        /\ op.name = "FfmpegWaitReturn" /\ op.s = s
        /\ ~pl[s].playing
        /\ Ran(s, "Stop") # {}
        /\ env[s].buf > 0 \/ task[s].data > 0
        /\ ev[s].Play = 0


\* C34: every session whose pipeline is live is in audio_clips.
C34_LiveIsListed ==
    \A s \in Sessions : pl[s].playing => InList(audio_clips, s)

\* a forced stop of all sessions has returned, the list is empty, and a
\* session whose Stop raised is still playing
C34_LiveOutsideRegistry ==
    /\ op.name = "ForceStopAll"
    /\ audio_clips = <<>>
    /\ \E s \in Sessions :
           /\ pl[s].playing
           /\ \E i \in 1..Len(out) :
                  out[i].k = "error" /\ out[i].a = s /\ out[i].b = "StopError"


\* C35: for one chat line the handler of a command is called at most once.
C35_HandlerCalledOnce ==
    op.name = "HandleCommand" =>
        \A i, j \in Calls : out[i].a = out[j].a => i = j

\* C35, the part that holds: a handler is not called again for the line
\* after it returned a value above 0, and it is called at most once per
\* trigger of its command.
C35_OnceAfterPositive ==
    op.name = "HandleCommand" =>
        \A i, j \in Calls :
            (i < j /\ out[i].a = out[j].a) =>
                /\ ~(out[i].c.t = "int" /\ out[i].c.v > 0)
                /\ out[i].b < out[j].b

\* two triggers of a command matched the line, its handler returned 0 and
\* was called again for the second trigger
C35_CalledTwice ==
    /\ op.name = "HandleCommand"
    /\ \E i, j \in Calls :
           /\ i < j
           /\ out[i].a = out[j].a
           /\ out[i].c = Ret("int", 0)


\* the triggers of the routed line that matched a command above the
\* player's level, in routing order
Denials == {i \in 1..Len(out) : out[i].k = "denied"}

\* C36: a command whose level is above the player's is never called for the
\* player's line; such a command is passed over only at a trigger that
\* matches; and the player is sent the no-access message, once, exactly when
\* a trigger of such a command matched and no handler was called for the
\* line after that match.
C36_AccessDenied ==
    op.name = "HandleCommand" =>
        /\ \A i \in Calls : op.commands[out[i].d].level <= op.level
        /\ \A i \in Denials :
               /\ op.commands[out[i].d].level > op.level
               /\ \/ IsMatch(op.commands[out[i].d].triggers[out[i].b],
                             FirstWord(op.extra), op.extra)
                  \/ \E j \in Calls : j < i /\ out[j].c = StrRet
        /\ Cardinality(Said(out, 0, "NoAccess")) =
               IF \E i \in Denials : \A j \in Calls : j < i THEN 1 ELSE 0
        /\ PlainCalls =>
               \A ci \in 1..Len(op.commands) :
                   (/\ op.commands[ci].level > op.level
                    /\ \E ti \in 1..Len(op.commands[ci].triggers) :
                           IsMatch(op.commands[ci].triggers[ti],
                                   FirstWord(op.extra), op.extra)
                    /\ \A i \in Calls :
                           out[i].d < ci /\ ~Claims(out[i].c))
                   => \E i \in Denials : out[i].d = ci

\* a handler was called for the line, a command of lower priority and above
\* the player's level matched afterwards, and the player was told
C36_Witness ==
    /\ op.name = "HandleCommand"
    /\ Said(out, 0, "NoAccess") # {}
    /\ \E i \in Calls : \E j \in Denials : i < j

\* a command above the player's level matched, a command of lower priority
\* was called afterwards, and the player was told nothing
C36_SilentAfterCall ==
    /\ op.name = "HandleCommand"
    /\ Said(out, 0, "NoAccess") = {}
    /\ \E i \in Denials : \E j \in Calls : i < j


\* the handler calls of the routed line that raised
RaisedCalls == {i \in Calls : out[i].c = RaiseRet}

\* trigger ti of command ci matches the routed line as it was received
MatchesLine(ci, ti) ==
    IsMatch(op.commands[ci].triggers[ti], FirstWord(op.extra), op.extra)

\* C37: an exception raised by a command handler stays inside HandleCommand:
\* it is logged and reported to chat, HandleCommand returns a handler result
\* and not the exception, the next matching trigger of the same command is
\* still called, while no handler has claimed the line every matching
\* trigger of every command is still called or denied, and a pending reload
\* is performed last with the flag cleared.
C37_HandlerErrorContained ==
    op.name = "HandleCommand" =>
        /\ \A i \in RaisedCalls :
               /\ i + 2 <= Len(out)
               /\ out[i + 1] = Ent("error", 0, "HandlerError", 0, 0)
               /\ out[i + 2] = Ent("SayChat", 0, "Error", 0, 0)
        /\ op.ret # RaiseRet
        /\ \A i \in RaisedCalls :
               \A ti \in 1..Len(op.commands[out[i].d].triggers) :
                   (/\ ti > out[i].b
                    /\ \A j \in Calls : out[j].c # StrRet
                    /\ MatchesLine(out[i].d, ti)
                    /\ \A t2 \in (out[i].b + 1)..(ti - 1) :
                           ~MatchesLine(out[i].d, t2))
                   => /\ i + 3 <= Len(out)
                      /\ out[i + 3].k = "_func"
                      /\ out[i + 3].d = out[i].d
                      /\ out[i + 3].b = ti
        /\ (/\ RaisedCalls # {}
            /\ \A j \in Calls : out[j].c # StrRet /\ ~Claims(out[j].c))
           => \A ci \in 1..Len(op.commands) :
                  \A ti \in 1..Len(op.commands[ci].triggers) :
                      MatchesLine(ci, ti) =>
                          \E j \in Calls \cup Denials :
                              out[j].d = ci /\ out[j].b = ti
        /\ ~op.needs_reload
        /\ op.pending =>
               /\ out # <<>>
               /\ out[Len(out)] = Ent("Reload", 0, "Setup", 0, 0)
        /\ ~op.pending => \A i \in 1..Len(out) : out[i].k # "Reload"

\* a handler raised, a command of lower priority was called afterwards, and
\* the pending reload was performed at the end
C37_Witness ==
    /\ op.name = "HandleCommand"
    /\ op.pending
    /\ out[Len(out)].k = "Reload"
    /\ \E i \in RaisedCalls : \E j \in Calls : i < j /\ out[i].d < out[j].d

\* a handler raised at its first trigger and was called again at its second
C37_NextTriggerCalled ==
    /\ op.name = "HandleCommand"
    /\ \E i \in RaisedCalls : \E j \in Calls :
           i < j /\ out[i].d = out[j].d /\ out[i].b < out[j].b


\* C38: when the Disable command runs while the system is enabled, the
\* system is disabled afterwards, whatever the admin level of the caller,
\* level 0 included.
C38_DisableDisables ==
    [][(op'.name = "Disable" /\ disabled = 0) => disabled' # 0]_vars

\* what holds of Disable: run while the system is enabled it stores the
\* caller's level and announces the system as disabled; run while the flag
\* is set it reports 'already disabled' and leaves the flag; a caller above
\* level 0 leaves the system disabled, and then Enable by a caller of at
\* least that level announces that it enabled the system, and a playback
\* request from a player below that level is rejected
C38_DisableStoresLevel ==
    [][/\ (op'.name = "Disable" /\ disabled = 0) =>
              /\ disabled' = Level(op'.u)
              /\ out' = <<Ent("SayChat", 0, "DisabledNow", 0, 0)>>
       /\ (op'.name = "Disable" /\ disabled # 0) =>
              /\ disabled' = disabled
              /\ out' = <<Ent("SayChat", 0, "AlreadyDisabled", 0, 0)>>
       /\ (op.name = "Disable" /\ disabled # 0 /\ op'.name = "Enable"
              /\ Level(op'.u) >= disabled) =>
              /\ disabled' = 0
              /\ out' = <<Ent("SayChat", 0, "EnabledNow", 0, 0)>>
       /\ (op.name = "Disable" /\ disabled # 0 /\ op'.name = "PlayCommand"
              /\ Level(op'.u) < disabled) =>
              /\ out' = <<Ent("SayPrivate", op'.u, "Disabled", 0, 0)>>
              /\ op'.ret = 0
    ]_vars

\* a caller of level 0 ran Disable on an enabled system: the chat was told
\* that the system is disabled, and the flag is still 0
C38_StillEnabled ==
    /\ op.name = "Disable"
    /\ Level(op.u) = 0
    /\ out = <<Ent("SayChat", 0, "DisabledNow", 0, 0)>>
    /\ disabled = 0

\* C39: Enable clears the disable flag only when the caller's level is at
\* least the level stored in the flag; a caller of a lower level is refused
\* and the flag is left as it was, whether a player's Disable or a vote
\* stored it.
C39_EnableNeedsLevel ==
    [][op'.name = "Enable" =>
          /\ disabled' \in {0, disabled}
          /\ (disabled # 0 /\ disabled' = 0) => Level(op'.u) >= disabled
          /\ (disabled # 0 /\ Level(op'.u) < disabled) =>
                 /\ disabled' = disabled
                 /\ out' = <<Ent("SayPrivate", op'.u, "NoAccessEnable", 0, 0)>>
                 /\ op'.ret = 1
          /\ (disabled # 0 /\ Level(op'.u) >= disabled) =>
                 /\ disabled' = 0
                 /\ out' = <<Ent("SayChat", 0, "EnabledNow", 0, 0)>>
          /\ UNCHANGED <<audio_clips, clips, pl, disable_votes, storage>>
    ]_vars

\* a vote disabled the system, a player then asked to enable it and was
\* refused
C39_Witness ==
    /\ op.name = "Enable"
    /\ op.ret = 1
    /\ disabled = VoteLevel
    /\ disable_votes # {}

\* a player of level 3 disabled the system and a player of level 1 was
\* refused when asking to enable it
C39_LowerRefused ==
    /\ op.name = "Enable"
    /\ op.ret = 1
    /\ Level(op.u) = 1
    /\ disabled = 3

\* the player who disabled the system enabled it again
C39_SameLevelEnables ==
    /\ op.name = "Enable"
    /\ Level(op.u) = 3
    /\ out = <<Ent("SayChat", 0, "EnabledNow", 0, 0)>>
    /\ disabled = 0


\* the Stop listeners of session s that ran in the last step, the registry's
\* removal apart
LaterStops(s) == {i \in Ran(s, "Stop") : out[i].b # "remove"}

\* C40: the registry's removal is the first Stop listener in the list of
\* every session that still has its listeners, and whenever another Stop
\* listener of a session runs (usage accounting, advertiser, or one a
\* command added later), the removal has run before it in the same
\* dispatch and the session is not in audio_clips.
C40_RemovalRunsFirst ==
    \A s \in Sessions :
        /\ pl[s].has_callbacks =>
               \E i \in 1..Len(pl[s].callbacks) :
                   /\ pl[s].callbacks[i] = <<"Stop", "remove">>
                   /\ \A j \in 1..(i - 1) : pl[s].callbacks[j][1] # "Stop"
        /\ \A i \in LaterStops(s) :
               /\ \E j \in Ran(s, "Stop") : j < i /\ out[j].b = "remove"
               /\ ~InList(audio_clips, s)

\* the Stop of a session of a player below the immunity level was
\* dispatched: the removal, the usage accounting, the advertiser and a
\* listener added later ran, in this order
C40_Witness ==
    \E s \in Sessions :
        \E i, j, k, l \in Ran(s, "Stop") :
            /\ i < j /\ j < k /\ k < l
            /\ out[i].b = "remove"
            /\ out[j].b = "spam"
            /\ out[k].b = "adv"
            /\ out[l].b \in {"unlink", "chain"}
            /\ ~InList(audio_clips, s)

====
